---- MODULE Spec2Model ----
(***************************************************************************)
(* A model of the delivery and batching core of the LogDot Node.js SDK:    *)
(* the retrying HttpClient, LogDotLogger, BoundMetricsClient,              *)
(* ConsoleCapture and the two OpenTelemetry exporters.                     *)
(*                                                                         *)
(* JavaScript runs one task at a time: an async method runs without        *)
(* interruption up to its first await and again from the settlement of     *)
(* the awaited promise to its next await or its return.  One action of the *)
(* model is one such uninterrupted run.  An HTTP request in flight is a    *)
(* record in the bag `calls`; the step that settles the request also runs  *)
(* the continuation of the method that awaits it.                          *)
(***************************************************************************)
EXTENDS Integers, Sequences, FiniteSets, Bags, TLC

VARIABLES
  component,    \* the object the application drives in this behaviour
  maxAttempts,  \* HttpClient.retryConfig.maxAttempts
  calls,        \* the bag of HTTP requests in flight
  ncalls,       \* number of API calls made so far
  returned,     \* what the step just taken returned, resolved or called back
  logger,       \* the fields of the LogDotLogger
  client,       \* the fields of the BoundMetricsClient
  capture,      \* the fields of the ConsoleCapture
  exporter,     \* the fields of the LogDotMetricExporter
  manager,      \* the fields of the LogDotMetrics entity manager
  derived,      \* the loggers withContext() has returned, in order of creation
  console       \* the global console and the ConsoleCapture instances built

\* Two fields of these records are history, not program state: `appended`
\* (logger, client) is the sequence of entries appended since the queue was
\* last emptied, and `responses` (a request) counts the HTTP responses the
\* request has read.

vars ==
  <<component, maxAttempts, calls, ncalls, returned,
    logger, client, capture, exporter, manager, derived, console>>

(***************************************************************************)
(* Bounds of the model.                                                    *)
(***************************************************************************)
\* API calls (log, sendBatch, beginBatch, ...) made in one behaviour.
MaxCalls == 4
\* The retryAttempts values a caller configures are 0..MaxRetryAttempts.
MaxRetryAttempts == 2
\* Requests of one object in flight at the same time.
MaxInFlight == 2
\* The entity calls of a LogDotMetrics that may be in flight together.
MaxManagerInFlight == 1
\* The loggers withContext() creates in a behaviour.
MaxDerived == 3
\* The ConsoleCapture instances constructed in a behaviour.
MaxCaptures == 3

(***************************************************************************)
(* Values.                                                                 *)
(***************************************************************************)
\* JavaScript objects with string keys are functions on their key set.
EmptyObject == [k \in {} |-> 0]
Keys(obj) == DOMAIN obj
\* { ...a, ...b }
Spread(a, b) ==
  [k \in Keys(a) \cup Keys(b) |-> IF k \in Keys(b) THEN b[k] ELSE a[k]]

\* An optional value: undefined, or defined with a value.
Undefined == [defined |-> FALSE, value |-> EmptyObject]
Some(v) == [defined |-> TRUE, value |-> v]

Last(s) == s[Len(s)]
\* Bags of requests: one more, one fewer.
With(bag, c) == bag (+) SetToBag({c})
Without(bag, c) == bag (-) SetToBag({c})

(***************************************************************************)
(* HttpClient (src/src/http.ts).                                           *)
(***************************************************************************)
BASE_LOGS_URL == "https://logs.logdot.io/api/v1"
BASE_METRICS_URL == "https://metrics.logdot.io/api/v1"

\* The status codes the service answers with in the model.
Statuses == {200, 201, 500}

\* lastError: Error | null.  Two Errors are told apart by the attempt that
\* threw them (its index in the retry loop); null is thrown by no attempt.
NoError == [thrown |-> FALSE, attempt |-> -1]
Err(attempt) == [thrown |-> TRUE, attempt |-> attempt]

\* What post()/get() settle with.
Response(status, id) ==
  [ok |-> TRUE, status |-> status, id |-> id, error |-> NoError]
Rejection(error) ==
  [ok |-> FALSE, status |-> 0, id |-> "", error |-> error]

ENDPOINT_ENTITIES == "/entities"
ENDPOINT_ENTITIES_BY_NAME == "/entities/by-name"
\* The ids a response body carries: data.data.id for the entity endpoints,
\* where "" stands for a body without one.
ResponseIds(url) ==
  IF url[2] \in {ENDPOINT_ENTITIES, ENDPOINT_ENTITIES_BY_NAME}
    THEN {"", "E1"}
    ELSE {""}

\* A loop that runs once more than configured (attempt <= maxAttempts).
LoopContinues_inclusive(attempt) == attempt <= maxAttempts

\* for (...; attempt < this.retryConfig.maxAttempts; ...)
LoopContinues(attempt) == attempt < maxAttempts

\* post()/get(): executeWithRetry enters its loop and, when the loop
\* condition holds, starts the first attempt (the timeout timer is armed
\* and fetch() is called).  `op` names the method that awaits the request;
\* `responses` counts the HTTP responses the request has read so far.
HttpStart(op, method, url, body) ==
  [op |-> op, method |-> method, url |-> url, body |-> body,
   attempt |-> 0,
   phase |-> IF LoopContinues(0) THEN "fetch" ELSE "throw",
   timer |-> LoopContinues(0),
   lastError |-> NoError,
   responses |-> 0]

\* Attempts started so far by request c.
AttemptsMade(c) == IF c.phase = "throw" THEN 0 ELSE c.attempt + 1

\* if (attempt < this.retryConfig.maxAttempts - 1): back off and go on.
BacksOff(attempt) == attempt < maxAttempts - 1

\* A transport that treats a 5xx response as a failed attempt.
ReturnsResponse_unless5xx(status) == status < 500

\* return await fn(): whatever status the attempt's response has, it is what
\* executeWithRetry returns.
ReturnsResponse(status) == TRUE

\* lastError = error as Error
CaughtError(lastError, error) == error

\* (error as Error).message in a caller's catch block: reading a property of
\* null throws a TypeError.
HasMessage(error) == error # NoError

(***************************************************************************)
(* What a step reports: the value an API call returned or resolved with,   *)
(* or the rejection it ended with, together with how the HTTP request it   *)
(* awaited ended.  `returned` holds the reports of the step just taken.    *)
(***************************************************************************)
NoHttp == [ok |-> FALSE, status |-> -1, id |-> "", error |-> NoError]
Report(op, how, value, http, attempts) ==
  [op |-> op, how |-> how, value |-> value, http |-> http,
   attempts |-> attempts]
Returns(op, value) == Report(op, "returned", value, NoHttp, 0)
\* The same, with the arguments of the call.
ReturnsFor(op, value, input) ==
  [op |-> op, how |-> "returned", value |-> value, http |-> NoHttp,
   attempts |-> 0, input |-> input]
\* An async method that ends after awaiting request c, which ended with out.
Resolves(c, value, out) ==
  Report(c.op, "resolved", value, out, AttemptsMade(c))
Rejects(c, out) ==
  Report(c.op, "rejected", FALSE, out, AttemptsMade(c))

(***************************************************************************)
(* LogDotLogger (src/src/logger.ts).                                       *)
(***************************************************************************)
hostname == "svc"
ENDPOINT_SINGLE == "/logs"
ENDPOINT_BATCH == "/logs/batch"

\* The contexts a logger is constructed with.
Contexts == {EmptyObject, [env |-> 1, user |-> 1]}
\* The (level, message, tags) a caller logs.
LogInputs ==
  { [level |-> "info", message |-> "a", tags |-> Undefined],
    [level |-> "error", message |-> "b", tags |-> Some([user |-> 2])] }

\* A merge in which the context wins over the call's tags.
mergeTags_contextWins(context, tags) ==
  IF Keys(context) = {} /\ ~tags.defined
    THEN Undefined
    ELSE Some(Spread(tags.value, context))

mergeTags(context, tags) ==
  IF Keys(context) = {} /\ ~tags.defined
    THEN Undefined
    ELSE Some(Spread(context, tags.value))

\* entry.tags && Object.keys(entry.tags).length > 0
HasTags(entry) == entry.tags.defined /\ Keys(entry.tags.value) # {}

\* this.batchQueue.unshift(entry), a queue that grows at the front.
Push_unshift(queue, entry) == <<entry>> \o queue

\* this.batchQueue.push(entry)
Push(queue, entry) == Append(queue, entry)

\* One element of the logs array of the batch payload.
BatchLog(entry) ==
  IF HasTags(entry)
    THEN [message |-> entry.message, severity |-> entry.level,
          tags |-> entry.tags.value]
    ELSE [message |-> entry.message, severity |-> entry.level]

\* this.batchQueue.map(entry => ...)
BatchLogs(queue) == [n \in 1..Len(queue) |-> BatchLog(queue[n])]

SingleLogPayload(entry) ==
  IF HasTags(entry)
    THEN [message |-> entry.message, severity |-> entry.level,
          hostname |-> hostname, tags |-> entry.tags.value]
    ELSE [message |-> entry.message, severity |-> entry.level,
          hostname |-> hostname]

\* A test that takes 200 alone for a success.
IsSuccess_only200(status) == status = 200

\* response.status === 200 || response.status === 201
IsSuccess(status) == status = 200 \/ status = 201

\* A sendBatch that clears the queue whatever the outcome.
LogDotLogger_clearsBatch_always(out) == TRUE

\* Whether the continuation of sendBatch reaches this.clearBatch().
LogDotLogger_clearsBatch(out) == out.ok /\ IsSuccess(out.status)

\* The continuation of sendLog after `await this.http.post(url, payload)`.
LogDotLogger_sendLog_settled(c, out) ==
  /\ calls' = Without(calls, c)
  /\ returned' =
       << IF out.ok THEN Resolves(c, IsSuccess(out.status), out)
          ELSE IF HasMessage(out.error) THEN Resolves(c, FALSE, out)
          ELSE Rejects(c, out) >>
  /\ UNCHANGED <<logger, client, capture, exporter, manager>>

\* The continuation of sendBatch after `await this.http.post(url, payload)`.
LogDotLogger_sendBatch_settled(c, out) ==
  /\ calls' = Without(calls, c)
  /\ logger' = IF LogDotLogger_clearsBatch(out)
                 THEN [logger EXCEPT !.batchQueue = <<>>, !.appended = <<>>]
                 ELSE logger
  /\ returned' =
       << IF out.ok THEN Resolves(c, IsSuccess(out.status), out)
          ELSE IF HasMessage(out.error) THEN Resolves(c, FALSE, out)
          ELSE Rejects(c, out) >>
  /\ UNCHANGED <<client, capture, exporter, manager>>

(***************************************************************************)
(* BoundMetricsClient (src/src/metrics.ts).                                *)
(***************************************************************************)
entityId == "entity-1"
METRICS_ENDPOINT_SINGLE == "/metrics"
METRICS_ENDPOINT_BATCH == "/metrics/batch"

\* The (metricName, unit) given to beginBatch.
BatchInputs == { [name |-> "cpu", unit |-> "percent"],
                 [name |-> "load", unit |-> "ratio"] }
\* The (value, tags) given to add.
AddInputs == { [value |-> 1, tags |-> Undefined],
               [value |-> 2, tags |-> Some([host |-> "a"])] }
\* The (name, value, unit, tags) given to addMetric and to send.
MetricInputs ==
  { [name |-> "cpu", value |-> 1, unit |-> "percent", tags |-> Undefined],
    [name |-> "mem", value |-> 2, unit |-> "MB",
     tags |-> Some([host |-> "a"])] }

\* formatTags: the "key:value" strings of the tags, undefined when there are
\* none.  (The order of Object.entries is not modelled.)
formatTags(tags) ==
  IF ~tags.defined \/ Keys(tags.value) = {}
    THEN Undefined
    ELSE Some({ k \o ":" \o tags.value[k] : k \in Keys(tags.value) })

\* One element of the metrics array of the batch payload.
BatchMetric(entry, multiBatchMode) ==
  LET formattedTags == formatTags(entry.tags) IN
  CASE multiBatchMode /\ formattedTags.defined ->
         [value |-> entry.value, unit |-> entry.unit, name |-> entry.name,
          tags |-> formattedTags.value]
    [] multiBatchMode /\ ~formattedTags.defined ->
         [value |-> entry.value, unit |-> entry.unit, name |-> entry.name]
    [] ~multiBatchMode /\ formattedTags.defined ->
         [value |-> entry.value, unit |-> entry.unit,
          tags |-> formattedTags.value]
    [] OTHER -> [value |-> entry.value, unit |-> entry.unit]

\* this.batchQueue.map(entry => ...)
BatchMetrics(queue, multiBatchMode) ==
  [n \in 1..Len(queue) |-> BatchMetric(queue[n], multiBatchMode)]

\* A payload with the batch name at top level in both modes.
BatchMetricsPayload_nameAlways(c) ==
  [entity_id |-> entityId,
   metrics |-> BatchMetrics(c.batchQueue, c.multiBatchMode),
   name |-> c.batchMetricName]

BatchMetricsPayload(c) ==
  IF c.multiBatchMode
    THEN [entity_id |-> entityId,
          metrics |-> BatchMetrics(c.batchQueue, c.multiBatchMode)]
    ELSE [entity_id |-> entityId,
          metrics |-> BatchMetrics(c.batchQueue, c.multiBatchMode),
          name |-> c.batchMetricName]

SingleMetricPayload(in) ==
  LET formattedTags == formatTags(in.tags) IN
  IF formattedTags.defined
    THEN [entity_id |-> entityId, name |-> in.name, value |-> in.value,
          unit |-> in.unit, tags |-> formattedTags.value]
    ELSE [entity_id |-> entityId, name |-> in.name, value |-> in.value,
          unit |-> in.unit]

\* `HTTP ${response.status}`
HttpErrorString(status) == "HTTP " \o ToString(status)
\* (error as Error).message of the Error thrown by an attempt.
Message(error) == "request failed"

\* Whether the continuation of sendBatch reaches this.clearBatch().
BoundMetricsClient_clearsBatch(out) == out.ok /\ IsSuccess(out.status)

\* lastError and lastHttpCode after the awaited POST ended with `out`.
BoundMetricsClient_recorded(c, out) ==
  CASE out.ok /\ IsSuccess(out.status) ->
         [c EXCEPT !.lastHttpCode = out.status, !.lastError = ""]
    [] out.ok /\ ~IsSuccess(out.status) ->
         [c EXCEPT !.lastHttpCode = out.status,
                   !.lastError = HttpErrorString(out.status)]
    [] ~out.ok /\ HasMessage(out.error) ->
         [c EXCEPT !.lastError = Message(out.error)]
    [] OTHER -> c

\* The continuation of send after `await this.http.post(url, payload)`.
BoundMetricsClient_send_settled(c, out) ==
  /\ calls' = Without(calls, c)
  /\ client' = BoundMetricsClient_recorded(client, out)
  /\ returned' =
       << IF out.ok THEN Resolves(c, IsSuccess(out.status), out)
          ELSE IF HasMessage(out.error) THEN Resolves(c, FALSE, out)
          ELSE Rejects(c, out) >>
  /\ UNCHANGED <<logger, capture, exporter, manager>>

\* The continuation of sendBatch after `await this.http.post(url, payload)`.
BoundMetricsClient_sendBatch_settled(c, out) ==
  LET recorded == BoundMetricsClient_recorded(client, out) IN
  /\ calls' = Without(calls, c)
  /\ client' = IF BoundMetricsClient_clearsBatch(out)
                 THEN [recorded EXCEPT !.batchQueue = <<>>, !.appended = <<>>]
                 ELSE recorded
  /\ returned' =
       << IF out.ok THEN Resolves(c, IsSuccess(out.status), out)
          ELSE IF HasMessage(out.error) THEN Resolves(c, FALSE, out)
          ELSE Rejects(c, out) >>
  /\ UNCHANGED <<logger, capture, exporter, manager>>

(***************************************************************************)
(* ConsoleCapture (console-capture.ts).                                    *)
(***************************************************************************)
\* config.maxBufferSize in the model.
maxBufferSize == 2

ConsoleMethods == {"log", "info", "warn", "error", "debug"}
LEVEL_MAP ==
  [log |-> "info", info |-> "info", warn |-> "warn", error |-> "error",
   debug |-> "debug"]
\* The console calls of the application: the method and its one string
\* argument, which formatArgs and truncateBytes leave as it is.
ConsoleInputs == [method : ConsoleMethods, text : {"a"}]

\* A wrapper without the guard.
Guarded_never(flushing) == FALSE

\* if (this.flushing) return;
Guarded(flushing) == flushing

\* flush(), applied to the fields `cap` and the requests `cs` in flight:
\* the fields and the requests afterwards.
\* A flush that copies the buffer (slice) and leaves the entries in it.
flush_copies(cap, cs) ==
  IF Len(cap.buffer) = 0 \/ cap.flushing
    THEN [capture |-> cap, calls |-> cs]
    ELSE [capture |-> [cap EXCEPT !.flushing = TRUE],
          calls |-> With(cs,
            HttpStart("ConsoleCapture.flush", "POST",
                      <<BASE_LOGS_URL, ENDPOINT_BATCH>>,
                      [hostname |-> hostname, logs |-> cap.buffer]))]

\* A flush that detaches the whole buffer and posts its first entry only.
flush_postsFirst(cap, cs) ==
  IF Len(cap.buffer) = 0 \/ cap.flushing
    THEN [capture |-> cap, calls |-> cs]
    ELSE [capture |-> [cap EXCEPT !.buffer = <<>>, !.flushing = TRUE],
          calls |-> With(cs,
            HttpStart("ConsoleCapture.flush", "POST",
                      <<BASE_LOGS_URL, ENDPOINT_BATCH>>,
                      [hostname |-> hostname,
                       logs |-> << Head(cap.buffer) >>]))]

\* A flush that goes on with an empty buffer.
flush_whenEmpty(cap, cs) ==
  IF cap.flushing
    THEN [capture |-> cap, calls |-> cs]
    ELSE [capture |-> [cap EXCEPT !.buffer = <<>>, !.flushing = TRUE],
          calls |-> With(cs,
            HttpStart("ConsoleCapture.flush", "POST",
                      <<BASE_LOGS_URL, ENDPOINT_BATCH>>,
                      [hostname |-> hostname, logs |-> cap.buffer]))]

flush(cap, cs) ==
  IF Len(cap.buffer) = 0 \/ cap.flushing
    THEN [capture |-> cap, calls |-> cs]
    ELSE [capture |-> [cap EXCEPT !.buffer = <<>>, !.flushing = TRUE],
          calls |-> With(cs,
            HttpStart("ConsoleCapture.flush", "POST",
                      <<BASE_LOGS_URL, ENDPOINT_BATCH>>,
                      [hostname |-> hostname,
                       logs |-> [n \in 1..Len(cap.buffer) |->
                                   [message |-> cap.buffer[n].message,
                                    severity |-> cap.buffer[n].severity,
                                    tags |-> cap.buffer[n].tags]]]))]

\* A shutdown that leaves the interval timer running.
clearInterval_keeps(cap) == cap

\* if (this.flushTimer) { clearInterval(this.flushTimer);
\*                        this.flushTimer = null; }
clearInterval(cap) == [cap EXCEPT !.flushTimer = FALSE]

\* A restore() that leaves the wrappers in place.
restore_keepsPatched(cap) == cap

\* restore(): console.log ... console.debug are the saved originals again.
restore(cap) == [cap EXCEPT !.patched = FALSE]

\* A catch that puts the entries of a rejected POST back in front.
ConsoleCapture_flush_caught_requeues(cap, c, out) ==
  IF out.ok THEN cap ELSE [cap EXCEPT !.buffer = c.body.logs \o @]

\* .catch(() => { }): the entries of request c, which ended with out, are
\* not put back.
ConsoleCapture_flush_caught(cap, c, out) == cap

\* .catch(() => {}).finally(() => { this.flushing = false; })
ConsoleCapture_flush_settled(c, out) ==
  /\ calls' = Without(calls, c)
  /\ capture' = [ConsoleCapture_flush_caught(capture, c, out)
                   EXCEPT !.flushing = FALSE]
  /\ returned' = << Resolves(c, FALSE, out) >>
  /\ UNCHANGED <<logger, client, exporter, manager>>

(***************************************************************************)
(* LogDotMetricExporter and LogDotSpanExporter (exporters/*.ts).           *)
(***************************************************************************)
entityName == "my-app"
\* The batches export() is given: the values of the gauge data points.
MetricBatches == { <<>>, <<-5>>, <<7, -5>> }
\* The span batches export() is given.
SpanBatches ==
  { <<>>,
    <<[lib |-> "http", name |-> "GET /", code |-> "ERROR", traceId |-> "t1",
       spanId |-> "s1"]>> }

\* convertMetricData, for the data points of a gauge: negative values are
\* skipped.
convertMetricData(batch) ==
  LET kept == SelectSeq(batch, LAMBDA v: ~(v < 0)) IN
  [n \in 1..Len(kept) |->
     [name |-> "gauge", value |-> kept[n], unit |-> "1"]]

severityFromStatus(code) ==
  CASE code = "ERROR" -> "error"
    [] code = "OK" -> "info"
    [] OTHER -> "debug"

\* spans.map(...): the message is `[${lib}] ${span.name}`; of the tags, the
\* trace id and the span id.
SpanLogs(spans) ==
  [n \in 1..Len(spans) |->
     [message |-> "[" \o spans[n].lib \o "] " \o spans[n].name,
      severity |-> severityFromStatus(spans[n].code),
      tags |-> [trace_id |-> spans[n].traceId, span_id |-> spans[n].spanId]]]

\* What export() tells its resultCallback, with the batch it was given.
Callback(op, code, batch, http, attempts) ==
  [op |-> op, how |-> "callback", value |-> code, http |-> http,
   attempts |-> attempts, batch |-> batch]

\* doExport after `await this.ensureEntity()`, for the exporter fields e:
\* "skip" (no entity id), "empty" (nothing to send) or "post".
AfterEnsure(e, batch) ==
  IF e.entityId = "" THEN "skip"
  ELSE IF Len(convertMetricData(batch)) = 0 THEN "empty"
  ELSE "post"

MetricsBatchRequest(e, batch) ==
  HttpStart("LogDotMetricExporter.doExport", "POST",
            <<BASE_METRICS_URL, METRICS_ENDPOINT_BATCH>>,
            [entity_id |-> e.entityId, metrics |-> convertMetricData(batch),
             batch |-> batch])

\* The doExport calls that await the entity promise go on when it settles:
\* the callbacks of those that return at once ...
RECURSIVE ResumedCallbacks(_, _)
ResumedCallbacks(e, waiting) ==
  IF waiting = <<>> THEN <<>>
  ELSE (IF AfterEnsure(e, Head(waiting)) = "post" THEN <<>>
        ELSE << Callback("LogDotMetricExporter.export", "SUCCESS",
                         Head(waiting), NoHttp, 0) >>)
       \o ResumedCallbacks(e, Tail(waiting))
\* ... and the batch requests of the others.
RECURSIVE ResumedRequests(_, _, _)
ResumedRequests(e, waiting, cs) ==
  IF waiting = <<>> THEN cs
  ELSE ResumedRequests(e, Tail(waiting),
         IF AfterEnsure(e, Head(waiting)) = "post"
           THEN With(cs, MetricsBatchRequest(e, Head(waiting)))
           ELSE cs)

\* resolveEntity has ended and left the fields e: its promise is fulfilled.
ResolutionEnds(c, e) ==
  /\ exporter' = [e EXCEPT !.waiting = <<>>]
  /\ calls' = ResumedRequests(e, e.waiting, Without(calls, c))
  /\ returned' = ResumedCallbacks(e, e.waiting)
  /\ UNCHANGED <<logger, client, capture, manager>>

\* Whether resolveEntity resets the memo when it ends with `out`.
ResetsMemo(out) == ~out.ok

\* resolveEntity after `await this.http.get(getUrl)`.
LogDotMetricExporter_get_settled(c, out) ==
  CASE out.ok /\ out.status = 200 /\ out.id # "" ->
         ResolutionEnds(c, [exporter EXCEPT !.entityId = out.id,
                                            !.entityPromise = "fulfilled"])
    [] out.ok /\ ~(out.status = 200 /\ out.id # "") ->
         /\ calls' = With(Without(calls, c),
              HttpStart("LogDotMetricExporter.resolveEntity", "POST",
                        <<BASE_METRICS_URL, ENDPOINT_ENTITIES>>,
                        [name |-> entityName]))
         /\ returned' = <<>>
         /\ UNCHANGED <<exporter, logger, client, capture, manager>>
    [] OTHER ->
         ResolutionEnds(c, [exporter EXCEPT !.entityPromise =
                              IF ResetsMemo(out) THEN "null" ELSE "fulfilled"])

\* resolveEntity after `await this.http.post(createUrl, ...)`.
LogDotMetricExporter_create_settled(c, out) ==
  IF out.ok /\ IsSuccess(out.status) /\ out.id # ""
    THEN ResolutionEnds(c, [exporter EXCEPT !.entityId = out.id,
                                            !.entityPromise = "fulfilled"])
    ELSE ResolutionEnds(c, [exporter EXCEPT !.entityPromise =
                              IF ResetsMemo(out) THEN "null" ELSE "fulfilled"])

\* What export() reports after the batch POST ended with `out`.
ExportResult(out) ==
  IF out.ok /\ IsSuccess(out.status) THEN "SUCCESS" ELSE "FAILED"

\* doExport after `await this.http.post(url, ...)`, then the callback.
LogDotMetricExporter_doExport_settled(c, out) ==
  /\ calls' = Without(calls, c)
  /\ returned' = << Callback("LogDotMetricExporter.export", ExportResult(out),
                             c.body.batch, out, AttemptsMade(c)) >>
  /\ UNCHANGED <<logger, client, capture, exporter, manager>>

LogDotSpanExporter_doExport_settled(c, out) ==
  /\ calls' = Without(calls, c)
  /\ returned' = << Callback("LogDotSpanExporter.export", ExportResult(out),
                             c.body.batch, out, AttemptsMade(c)) >>
  /\ UNCHANGED <<logger, client, capture, exporter, manager>>

(***************************************************************************)
(* LogDotMetrics, the entity manager (src/src/metrics.ts).                 *)
(***************************************************************************)
\* The names of the entities the application asks for.
EntityNames == {"svc"}
\* null, where an Entity is expected; an Entity is told by its id.
NoEntity == ""

\* response.status === 200 && response.data?.data?.id
EntityFound(out) == out.ok /\ out.status = 200 /\ out.id # ""
\* (response.status === 200 || response.status === 201) &&
\* response.data?.data?.id
EntityCreated(out) == out.ok /\ IsSuccess(out.status) /\ out.id # ""

\* getEntityByName after `await this.http.get(url)`: the fields of the
\* manager m afterwards.
LogDotMetrics_lookedUp(m, out) ==
  CASE EntityFound(out) ->
         [m EXCEPT !.lastHttpCode = out.status, !.lastError = ""]
    [] out.ok /\ ~EntityFound(out) ->
         [m EXCEPT !.lastHttpCode = out.status,
                   !.lastError = "Entity not found. HTTP "
                                   \o ToString(out.status)]
    [] ~out.ok /\ HasMessage(out.error) ->
         [m EXCEPT !.lastError = Message(out.error)]
    [] OTHER -> m

\* createEntity after `await this.http.post(url, payload)`.
LogDotMetrics_created(m, out) ==
  CASE EntityCreated(out) ->
         [m EXCEPT !.lastHttpCode = out.status, !.lastError = ""]
    [] out.ok /\ ~EntityCreated(out) ->
         [m EXCEPT !.lastHttpCode = out.status,
                   !.lastError = "Failed to create entity. HTTP "
                                   \o ToString(out.status)]
    [] ~out.ok /\ HasMessage(out.error) ->
         [m EXCEPT !.lastError = Message(out.error)]
    [] OTHER -> m

\* What getEntityByName and createEntity end with, having awaited request c:
\* the Entity (its id), null, or the rejection of a catch block that threw.
EntityReport(op, c, entity, out) ==
  IF out.ok \/ HasMessage(out.error)
    THEN Report(op, "resolved", entity, out, AttemptsMade(c))
    ELSE Report(op, "rejected", NoEntity, out, AttemptsMade(c))
LookupReport(c, out) ==
  EntityReport("LogDotMetrics.getEntityByName", c,
               IF EntityFound(out) THEN out.id ELSE NoEntity, out)
CreateReport(c, out) ==
  EntityReport("LogDotMetrics.createEntity", c,
               IF EntityCreated(out) THEN out.id ELSE NoEntity, out)
\* getOrCreateEntity ends as the call it awaited last ended.
GetOrCreateReport(inner) ==
  [inner EXCEPT !.op = "LogDotMetrics.getOrCreateEntity"]

LogDotMetrics_getEntityByName_settled(c, out) ==
  /\ calls' = Without(calls, c)
  /\ manager' = LogDotMetrics_lookedUp(manager, out)
  /\ returned' = << LookupReport(c, out) >>
  /\ UNCHANGED <<logger, client, capture, exporter>>

LogDotMetrics_createEntity_settled(c, out) ==
  /\ calls' = Without(calls, c)
  /\ manager' = LogDotMetrics_created(manager, out)
  /\ returned' = << CreateReport(c, out) >>
  /\ UNCHANGED <<logger, client, capture, exporter>>

\* A getOrCreateEntity that creates whatever the lookup found.
ReturnsExisting_never(existing) == FALSE

\* if (existing): getOrCreateEntity returns what the lookup found.
ReturnsExisting(existing) == existing # NoEntity

\* getOrCreateEntity after `await this.getEntityByName(options.name)`.
LogDotMetrics_getOrCreateEntity_lookedUp(c, out) ==
  LET looked == LookupReport(c, out) IN
  /\ manager' = LogDotMetrics_lookedUp(manager, out)
  /\ IF looked.how = "rejected" \/ ReturnsExisting(looked.value)
       THEN /\ calls' = Without(calls, c)
            /\ returned' = << looked, GetOrCreateReport(looked) >>
       ELSE /\ calls' = With(Without(calls, c),
                 HttpStart("LogDotMetrics.getOrCreateEntity", "POST",
                           <<BASE_METRICS_URL, ENDPOINT_ENTITIES>>, c.body))
            /\ returned' = << looked >>
  /\ UNCHANGED <<logger, client, capture, exporter>>

\* getOrCreateEntity after createEntity has ended.
LogDotMetrics_getOrCreateEntity_created(c, out) ==
  /\ calls' = Without(calls, c)
  /\ manager' = LogDotMetrics_created(manager, out)
  /\ returned' = << CreateReport(c, out),
                    GetOrCreateReport(CreateReport(c, out)) >>
  /\ UNCHANGED <<logger, client, capture, exporter>>

(***************************************************************************)
(* The steps of a request in flight (HttpClient.post/get and               *)
(* executeWithRetry).                                                      *)
(***************************************************************************)
\* Request c has settled with `out`: the method awaiting it goes on.
Settle(c, out) ==
  CASE c.op = "LogDotLogger.log" -> LogDotLogger_sendLog_settled(c, out)
    [] c.op = "LogDotLogger.sendBatch" ->
         LogDotLogger_sendBatch_settled(c, out)
    [] c.op = "BoundMetricsClient.send" ->
         BoundMetricsClient_send_settled(c, out)
    [] c.op = "BoundMetricsClient.sendBatch" ->
         BoundMetricsClient_sendBatch_settled(c, out)
    [] c.op = "ConsoleCapture.flush" -> ConsoleCapture_flush_settled(c, out)
    [] c.op = "LogDotMetricExporter.resolveEntity" /\ c.method = "GET" ->
         LogDotMetricExporter_get_settled(c, out)
    [] c.op = "LogDotMetricExporter.resolveEntity" /\ c.method = "POST" ->
         LogDotMetricExporter_create_settled(c, out)
    [] c.op = "LogDotMetricExporter.doExport" ->
         LogDotMetricExporter_doExport_settled(c, out)
    [] c.op = "LogDotSpanExporter.doExport" ->
         LogDotSpanExporter_doExport_settled(c, out)
    [] c.op = "LogDotMetrics.getEntityByName" ->
         LogDotMetrics_getEntityByName_settled(c, out)
    [] c.op = "LogDotMetrics.createEntity" ->
         LogDotMetrics_createEntity_settled(c, out)
    [] c.op = "LogDotMetrics.getOrCreateEntity" /\ c.method = "GET" ->
         LogDotMetrics_getOrCreateEntity_lookedUp(c, out)
    [] c.op = "LogDotMetrics.getOrCreateEntity" /\ c.method = "POST" ->
         LogDotMetrics_getOrCreateEntity_created(c, out)

\* Request c goes on, as d, without settling.
Continue(c, d) ==
  /\ calls' = With(Without(calls, c), d)
  /\ returned' = <<>>
  /\ UNCHANGED <<logger, client, capture, exporter, manager>>

\* attempt++ and the loop test: the next attempt starts, or the loop is left
\* and `throw lastError!` rejects the request.
Iterate(c, d) ==
  IF LoopContinues(d.attempt + 1)
    THEN Continue(c, [d EXCEPT !.attempt = d.attempt + 1, !.phase = "fetch",
                               !.timer = TRUE])
    ELSE Settle(c, Rejection(d.lastError))

\* catch (error) of executeWithRetry.
Catch(c, error, responses) ==
  LET d == [c EXCEPT !.lastError = CaughtError(c.lastError, error),
                     !.timer = FALSE, !.responses = responses] IN
  IF BacksOff(c.attempt)
    THEN Continue(c, [d EXCEPT !.phase = "sleep"])
    ELSE Iterate(c, d)

\* fetch() resolves with the response; clearTimeout(timeoutId).
FetchResolves(c) ==
  /\ c.phase = "fetch"
  /\ Continue(c, [c EXCEPT !.phase = "body", !.timer = FALSE])
  /\ UNCHANGED <<component, maxAttempts, ncalls, derived, console>>

\* response.text() resolves: the attempt returns {status, data}, where the
\* response has the given status and its body the given id.
BodyRead(c, status, id) ==
  /\ c.phase = "body"
  /\ IF ReturnsResponse(status)
       THEN Settle(c, Response(status, id))
       ELSE Catch(c, Err(c.attempt), c.responses + 1)
  /\ UNCHANGED <<component, maxAttempts, ncalls, derived, console>>

\* The timeout fires while its timer is armed: controller.abort() makes
\* fetch() throw.
AttemptTimesOut(c) ==
  /\ c.phase = "fetch"
  /\ c.timer
  /\ Catch(c, Err(c.attempt), c.responses)
  /\ UNCHANGED <<component, maxAttempts, ncalls, derived, console>>

\* fetch() or response.text() throws a network failure.
AttemptFails(c) ==
  /\ c.phase \in {"fetch", "body"}
  /\ Catch(c, Err(c.attempt), c.responses)
  /\ UNCHANGED <<component, maxAttempts, ncalls, derived, console>>

\* await this.sleep(delay) is over.
BackoffElapses(c) ==
  /\ c.phase = "sleep"
  /\ Iterate(c, c)
  /\ UNCHANGED <<component, maxAttempts, ncalls, derived, console>>

\* The loop was never entered (maxAttempts is 0): throw lastError!, which
\* is null.
ThrowsLastError(c) ==
  /\ c.phase = "throw"
  /\ Settle(c, Rejection(c.lastError))
  /\ UNCHANGED <<component, maxAttempts, ncalls, derived, console>>

(***************************************************************************)
(* HttpClient.calculateBackoff.  Delays are in thousandths of a            *)
(* millisecond, Math.random() in hundredths.                               *)
(***************************************************************************)
\* retryConfig.baseDelayMs and retryConfig.maxDelayMs, in milliseconds.
BaseDelays == {0, 1, 1000, 3000}
MaxDelays == {1, 2500, 30000}
\* The values of Math.random(), which is at least 0 and less than 1.
Randoms == {0, 33, 50, 99}

\* A backoff without the cap.
calculateBackoff_uncapped(baseDelayMs, maxDelayMs, attempt, random) ==
  LET delay == baseDelayMs * 2^attempt IN 1000 * delay + random * 3 * delay

\* delay = baseDelayMs * 2^attempt; jitter = Math.random() * 0.3 * delay;
\* Math.min(delay + jitter, maxDelayMs)
calculateBackoff(baseDelayMs, maxDelayMs, attempt, random) ==
  LET delay == baseDelayMs * 2^attempt
      jitter == random * 3 * delay
      jittered == 1000 * delay + jitter
      cap == 1000 * maxDelayMs IN
  IF jittered <= cap THEN jittered ELSE cap

\* this.calculateBackoff(attempt), with what it is given and what the
\* configuration and Math.random() say.
HttpClient_calculateBackoff(in) ==
  /\ component = "backoff"
  /\ returned' =
       << ReturnsFor("HttpClient.calculateBackoff",
                     calculateBackoff(in.baseDelayMs, in.maxDelayMs,
                                      in.attempt, in.random), in) >>
  /\ UNCHANGED <<component, maxAttempts, calls, ncalls, logger, client,
                 capture, exporter, manager, derived, console>>

\* The attempts after which the loop backs off, for the retry
\* configurations of the model.
BackoffInputs ==
  [baseDelayMs : BaseDelays, maxDelayMs : MaxDelays,
   attempt : 0..MaxRetryAttempts, random : Randoms]

(***************************************************************************)
(* truncateBytes (utils.ts).  A string is a sequence of code points, a     *)
(* byte is the code point it encodes and its place in the encoding.        *)
(***************************************************************************)
MaxStringLength == 3
MaxBytes == 4
\* The code points of the strings: one of one byte, one of four bytes, the
\* byte order mark U+FEFF (three bytes) and a lone surrogate.
CodePoints == {"a", "grin", "BOM", "D800"}
Utf8Length == [a |-> 1, grin |-> 4, BOM |-> 3, FFFD |-> 3]
\* '... [truncated]'
Marker == "... [truncated]"

\* new TextEncoder().encode(str): a lone surrogate is encoded as U+FFFD.
RECURSIVE TextEncoder_encode(_)
TextEncoder_encode(str) ==
  IF str = <<>> THEN <<>>
  ELSE LET cp == IF Head(str) = "D800" THEN "FFFD" ELSE Head(str) IN
       [i \in 1..Utf8Length[cp] |-> [of |-> cp, index |-> i - 1]]
         \o TextEncoder_encode(Tail(str))

\* The code points of a byte sequence; a byte that starts no complete
\* sequence decodes to U+FFFD.
RECURSIVE Utf8Decode(_)
Utf8Decode(bytes) ==
  IF bytes = <<>> THEN <<>>
  ELSE LET b == Head(bytes)
           n == Utf8Length[b.of] IN
       IF /\ b.index = 0 /\ Len(bytes) >= n
          /\ \A i \in 1..n: bytes[i] = [of |-> b.of, index |-> i - 1]
         THEN <<b.of>> \o Utf8Decode(SubSeq(bytes, n + 1, Len(bytes)))
         ELSE <<"FFFD">> \o Utf8Decode(Tail(bytes))

\* new TextDecoder().decode(bytes): ignoreBOM is false, so a byte order
\* mark at the start is not part of the result.
TextDecoder_decode(bytes) ==
  LET decoded == Utf8Decode(bytes) IN
  IF decoded # <<>> /\ Head(decoded) = "BOM" THEN Tail(decoded) ELSE decoded

\* while (end > 0 && (encoded[end] & 0xc0) === 0x80) end--;  A byte is
\* a continuation byte when it is not the first of its sequence.
RECURSIVE WalkBack(_, _)
WalkBack(encoded, end) ==
  IF end > 0 /\ encoded[end + 1].index > 0
    THEN WalkBack(encoded, end - 1)
    ELSE end

truncateBytes(str, maxBytes) ==
  LET encoded == TextEncoder_encode(str) IN
  IF Len(encoded) <= maxBytes THEN str
  ELSE TextDecoder_decode(SubSeq(encoded, 1, WalkBack(encoded, maxBytes)))
         \o <<Marker>>

TruncateInputs ==
  [str : UNION {[1..n -> CodePoints] : n \in 0..MaxStringLength},
   maxBytes : 0..MaxBytes]

\* truncateBytes(str, maxBytes), called with a string and a budget.  The
\* function keeps no state, so a behaviour makes one call.
truncateBytes_called(in) ==
  /\ component = "truncate"
  /\ returned = <<>>
  /\ returned' =
       << ReturnsFor("truncateBytes", truncateBytes(in.str, in.maxBytes),
                     in) >>
  /\ UNCHANGED <<component, maxAttempts, calls, ncalls, logger, client,
                 capture, exporter, manager, derived, console>>

(***************************************************************************)
(* The API of LogDotLogger.                                                *)
(***************************************************************************)
Call == /\ ncalls < MaxCalls
        /\ ncalls' = ncalls + 1
        /\ UNCHANGED <<component, maxAttempts, derived, console>>

\* The contexts withContext() is given.
ContextInputs == {EmptyObject, [user |-> 2], [user |-> 3, region |-> 1]}

\* The context of logger n: 0 is the logger built by the application, n > 0
\* the n-th logger withContext() returned.
ContextOf(n) == IF n = 0 THEN logger.context ELSE derived[n].context

\* A merge in which the logger's own context wins over the one given.
withContext_ownWins(context, given) == Spread(given, context)

\* const mergedContext = { ...this.context, ...context }
withContext(context, given) == Spread(context, given)

\* A logger that starts with the batch mode and the queue of the logger it
\* was derived from.
NewLogger_inheritsBatch(n, given, context) ==
  [parent |-> n, given |-> given, context |-> context,
   batchMode |-> IF n = 0 THEN logger.batchMode ELSE derived[n].batchMode,
   batchQueue |-> IF n = 0 THEN logger.batchQueue ELSE derived[n].batchQueue]

\* new LogDotLogger(this.config, mergedContext): the field initialisers
\* batchMode = false and batchQueue = [], then this.context = context.
\* `parent` and `given` record where the logger comes from.
NewLogger(n, given, context) ==
  [parent |-> n, given |-> given, context |-> context,
   batchMode |-> FALSE, batchQueue |-> <<>>]

\* this.withContext(context), called on logger n: a new LogDotLogger with
\* the same configuration and the merged context.
LogDotLogger_withContext(n, given) ==
  /\ component \in {"context", "family"}
  /\ Len(derived) < MaxDerived
  /\ derived' = Append(derived,
       NewLogger(n, given, withContext(ContextOf(n), given)))
  /\ returned' =
       << ReturnsFor("LogDotLogger.withContext", Len(derived) + 1,
                     [this |-> n, context |-> given]) >>
  /\ UNCHANGED <<component, maxAttempts, calls, ncalls, logger, client,
                 capture, exporter, manager, console>>

\* The batch mode and the queue of logger n.
BatchOf(n) ==
  IF n = 0 THEN [batchMode |-> logger.batchMode,
                 batchQueue |-> logger.batchQueue]
  ELSE [batchMode |-> derived[n].batchMode,
        batchQueue |-> derived[n].batchQueue]

\* log(level, message, tags) called on logger n of a family of loggers: the
\* logger the application built (0) and those derived from it.
\* The requests of the family of loggers in flight at the same time.
MaxFamilyInFlight == 1

LogDotLogger_log_on(n, in) ==
  LET entry == [message |-> in.message, level |-> in.level,
                tags |-> mergeTags(ContextOf(n), in.tags)] IN
  /\ component = "family"
  /\ ncalls < MaxCalls
  /\ ncalls' = ncalls + 1
  /\ IF BatchOf(n).batchMode
       THEN /\ IF n = 0
                 THEN /\ logger' = [logger EXCEPT
                                      !.batchQueue = Push(@, entry),
                                      !.appended = Append(@, entry)]
                      /\ UNCHANGED derived
                 ELSE /\ derived' = [derived EXCEPT
                                       ![n].batchQueue = Push(@, entry)]
                      /\ UNCHANGED logger
            /\ returned' =
                 << ReturnsFor("LogDotLogger.log", TRUE,
                               [this |-> n, entry |-> entry]) >>
            /\ UNCHANGED calls
       ELSE /\ BagCardinality(calls) < MaxFamilyInFlight
            /\ calls' = With(calls,
                 HttpStart("LogDotLogger.log", "POST",
                           <<BASE_LOGS_URL, ENDPOINT_SINGLE>>,
                           SingleLogPayload(entry)))
            /\ returned' = <<>>
            /\ UNCHANGED <<logger, derived>>
  /\ UNCHANGED <<component, maxAttempts, client, capture, exporter, manager,
                 console>>

\* beginBatch() called on logger n of the family.
LogDotLogger_beginBatch_on(n) ==
  /\ component = "family"
  /\ ncalls < MaxCalls
  /\ ncalls' = ncalls + 1
  /\ IF n = 0
       THEN /\ logger' = [logger EXCEPT !.batchMode = TRUE,
                                        !.batchQueue = <<>>,
                                        !.appended = <<>>]
            /\ UNCHANGED derived
       ELSE /\ derived' = [derived EXCEPT ![n].batchMode = TRUE,
                                          ![n].batchQueue = <<>>]
            /\ UNCHANGED logger
  /\ returned' = << ReturnsFor("LogDotLogger.beginBatch", TRUE, n) >>
  /\ UNCHANGED <<component, maxAttempts, calls, client, capture, exporter,
                 manager, console>>

LogDotLogger_log(in) ==
  LET entry == [message |-> in.message, level |-> in.level,
                tags |-> mergeTags(logger.context, in.tags)] IN
  /\ component = "logger"
  /\ Call
  /\ IF logger.batchMode
       THEN /\ logger' = [logger EXCEPT !.batchQueue = Push(@, entry),
                                        !.appended = Append(@, entry)]
            /\ returned' = << ReturnsFor("LogDotLogger.log", TRUE, in) >>
            /\ UNCHANGED calls
       ELSE /\ BagCardinality(calls) < MaxInFlight
            /\ calls' = With(calls,
                 HttpStart("LogDotLogger.log", "POST",
                           <<BASE_LOGS_URL, ENDPOINT_SINGLE>>,
                           SingleLogPayload(entry)))
            /\ returned' = <<>>
            /\ UNCHANGED logger
  /\ UNCHANGED <<client, capture, exporter, manager>>

LogDotLogger_beginBatch ==
  /\ component = "logger"
  /\ Call
  /\ logger' = [logger EXCEPT !.batchMode = TRUE, !.batchQueue = <<>>,
                              !.appended = <<>>]
  /\ returned' = << Returns("LogDotLogger.beginBatch", TRUE) >>
  /\ UNCHANGED <<calls, client, capture, exporter, manager>>

\* if (!this.batchMode || this.batchQueue.length === 0)
\* A sendBatch() that also gives up while another one's POST is pending.
LogDotLogger_nothingToSend_exclusive(l) ==
  \/ ~l.batchMode \/ Len(l.batchQueue) = 0
  \/ \E c \in BagToSet(calls): c.op = "LogDotLogger.sendBatch"

LogDotLogger_nothingToSend(l) == ~l.batchMode \/ Len(l.batchQueue) = 0

LogDotLogger_sendBatch ==
  /\ component = "logger"
  /\ Call
  /\ IF LogDotLogger_nothingToSend(logger)
       THEN /\ returned' = << Returns("LogDotLogger.sendBatch", FALSE) >>
            /\ UNCHANGED calls
       ELSE /\ BagCardinality(calls) < MaxInFlight
            /\ calls' = With(calls,
                 HttpStart("LogDotLogger.sendBatch", "POST",
                           <<BASE_LOGS_URL, ENDPOINT_BATCH>>,
                           [hostname |-> hostname,
                            logs |-> BatchLogs(logger.batchQueue)]))
            /\ returned' = <<>>
  /\ UNCHANGED <<logger, client, capture, exporter, manager>>

LogDotLogger_endBatch ==
  /\ component = "logger"
  /\ Call
  /\ logger' = [logger EXCEPT !.batchMode = FALSE, !.batchQueue = <<>>,
                              !.appended = <<>>]
  /\ returned' = << Returns("LogDotLogger.endBatch", TRUE) >>
  /\ UNCHANGED <<calls, client, capture, exporter, manager>>

LogDotLogger_clearBatch ==
  /\ component = "logger"
  /\ Call
  /\ logger' = [logger EXCEPT !.batchQueue = <<>>,
                              !.appended = <<>>]
  /\ returned' = << Returns("LogDotLogger.clearBatch", TRUE) >>
  /\ UNCHANGED <<calls, client, capture, exporter, manager>>

(***************************************************************************)
(* The API of BoundMetricsClient.                                          *)
(***************************************************************************)
BoundMetricsClient_send(in) ==
  /\ component = "metrics"
  /\ Call
  /\ IF client.batchMode
       THEN /\ client' = [client EXCEPT !.lastError =
                 "Cannot use send() in batch mode. Use add() or addMetric() instead."]
            /\ returned' = << Returns("BoundMetricsClient.send", FALSE) >>
            /\ UNCHANGED calls
       ELSE /\ BagCardinality(calls) < MaxInFlight
            /\ calls' = With(calls,
                 HttpStart("BoundMetricsClient.send", "POST",
                           <<BASE_METRICS_URL, METRICS_ENDPOINT_SINGLE>>,
                           SingleMetricPayload(in)))
            /\ returned' = <<>>
            /\ UNCHANGED client
  /\ UNCHANGED <<logger, capture, exporter, manager>>

\* A clearBatch() that leaves the queue as it is.
clearBatch_keeps(c) == c

\* clearBatch(): this.batchQueue = []
clearBatch(c) == [c EXCEPT !.batchQueue = <<>>, !.appended = <<>>]

BoundMetricsClient_beginBatch(in) ==
  /\ component = "metrics"
  /\ Call
  /\ client' = clearBatch([client EXCEPT !.batchMode = TRUE,
                                         !.multiBatchMode = FALSE,
                                         !.batchMetricName = in.name,
                                         !.batchUnit = in.unit])
  /\ returned' = << ReturnsFor("BoundMetricsClient.beginBatch", TRUE, in) >>
  /\ UNCHANGED <<calls, logger, capture, exporter, manager>>

\* A guard of add() that looks at batchMode alone.
NotInSingleBatch_batchModeOnly(c) == ~c.batchMode

\* if (!this.batchMode || this.multiBatchMode)
NotInSingleBatch(c) == ~c.batchMode \/ c.multiBatchMode

\* A guard of addMetric() that refuses nothing.
NotInMultiBatch_never(c) == FALSE

\* if (!this.multiBatchMode)
NotInMultiBatch(c) == ~c.multiBatchMode

BoundMetricsClient_add(in) ==
  /\ component = "metrics"
  /\ Call
  /\ IF NotInSingleBatch(client)
       THEN /\ client' = [client EXCEPT !.lastError =
                 "Not in single-metric batch mode. Call beginBatch() first."]
            /\ returned' = << Returns("BoundMetricsClient.add", FALSE) >>
       ELSE /\ LET entry == [name |-> client.batchMetricName,
                              value |-> in.value, unit |-> client.batchUnit,
                              tags |-> in.tags] IN
               client' = [client EXCEPT !.batchQueue = Push(@, entry),
                                        !.appended = Append(@, entry)]
            /\ returned' = << Returns("BoundMetricsClient.add", TRUE) >>
  /\ UNCHANGED <<calls, logger, capture, exporter, manager>>

BoundMetricsClient_beginMultiBatch ==
  /\ component = "metrics"
  /\ Call
  /\ client' = clearBatch([client EXCEPT !.batchMode = TRUE,
                                         !.multiBatchMode = TRUE])
  /\ returned' = << Returns("BoundMetricsClient.beginMultiBatch", TRUE) >>
  /\ UNCHANGED <<calls, logger, capture, exporter, manager>>

BoundMetricsClient_addMetric(in) ==
  /\ component = "metrics"
  /\ Call
  /\ IF NotInMultiBatch(client)
       THEN /\ client' = [client EXCEPT !.lastError =
                 "Not in multi-metric batch mode. Call beginMultiBatch() first."]
            /\ returned' = << Returns("BoundMetricsClient.addMetric", FALSE) >>
       ELSE /\ LET entry == [name |-> in.name, value |-> in.value,
                              unit |-> in.unit, tags |-> in.tags] IN
               client' = [client EXCEPT !.batchQueue = Push(@, entry),
                                        !.appended = Append(@, entry)]
            /\ returned' = << Returns("BoundMetricsClient.addMetric", TRUE) >>
  /\ UNCHANGED <<calls, logger, capture, exporter, manager>>

\* A guard of sendBatch() that looks at the mode alone.
BoundMetricsClient_nothingToSend_modeOnly(c) == ~c.batchMode

\* if (!this.batchMode || this.batchQueue.length === 0)
BoundMetricsClient_nothingToSend(c) == ~c.batchMode \/ Len(c.batchQueue) = 0

BoundMetricsClient_sendBatch ==
  /\ component = "metrics"
  /\ Call
  /\ IF BoundMetricsClient_nothingToSend(client)
       THEN /\ returned' = << Returns("BoundMetricsClient.sendBatch", FALSE) >>
            /\ UNCHANGED calls
       ELSE /\ BagCardinality(calls) < MaxInFlight
            /\ calls' = With(calls,
                 HttpStart("BoundMetricsClient.sendBatch", "POST",
                           <<BASE_METRICS_URL, METRICS_ENDPOINT_BATCH>>,
                           BatchMetricsPayload(client)))
            /\ returned' = <<>>
  /\ UNCHANGED <<client, logger, capture, exporter, manager>>

BoundMetricsClient_endBatch ==
  /\ component = "metrics"
  /\ Call
  /\ client' = clearBatch([client EXCEPT !.batchMode = FALSE,
                                         !.multiBatchMode = FALSE])
  /\ returned' = << Returns("BoundMetricsClient.endBatch", TRUE) >>
  /\ UNCHANGED <<calls, logger, capture, exporter, manager>>

BoundMetricsClient_clearBatch ==
  /\ component = "metrics"
  /\ Call
  /\ client' = clearBatch(client)
  /\ returned' = << Returns("BoundMetricsClient.clearBatch", TRUE) >>
  /\ UNCHANGED <<calls, logger, capture, exporter, manager>>

(***************************************************************************)
(* ConsoleCapture: the patched console methods, the timer, shutdown.       *)
(***************************************************************************)
\* What a console call reports: the original was called with the arguments.
\* A wrapper that tests the guard before it calls the original.
OriginalCalls_unlessFlushing(in, flushing) ==
  IF flushing THEN <<>> ELSE << in >>

\* original.apply(console, args), the first statement of the wrapper, ahead
\* of the test of this.flushing: the invocations of the saved original, each
\* with its arguments.
OriginalCalls(in, flushing) == << in >>

\* What a console call comes to: its arguments and the invocations of the
\* original function it made.
ConsoleReport(in) ==
  [op |-> "console", how |-> "returned", value |-> TRUE, http |-> NoHttp,
   attempts |-> 0, input |-> in,
   output |-> OriginalCalls(in, capture.patched /\ capture.flushing)]

\* A threshold that is passed only beyond maxBufferSize.
BufferFull_beyond(buffer) == Len(buffer) > maxBufferSize

\* if (this.buffer.length >= this.maxBufferSize)
BufferFull(buffer) == Len(buffer) >= maxBufferSize

\* console[method](...args), called by the application.
ConsoleCall(in) ==
  LET pushed == [capture EXCEPT !.buffer =
                   Push(@, [message |-> in.text,
                            severity |-> LEVEL_MAP[in.method],
                            tags |-> [source |-> "console"]])]
      after == IF BufferFull(pushed.buffer)
                 THEN flush(pushed, calls)
                 ELSE [capture |-> pushed, calls |-> calls] IN
  /\ component = "capture"
  /\ Call
  /\ returned' = << ConsoleReport(in) >>
  /\ IF ~capture.patched \/ Guarded(capture.flushing)
       THEN UNCHANGED <<capture, calls>>
       ELSE /\ capture' = after.capture
            /\ calls' = after.calls
  /\ UNCHANGED <<logger, client, exporter, manager>>

\* The interval timer calls flush().  The timer fires for as long as it is
\* set: its ticks are no calls of the application and are not counted.
TimerFires ==
  /\ component = "capture"
  /\ capture.flushTimer
  /\ capture' = flush(capture, calls).capture
  /\ calls' = flush(capture, calls).calls
  /\ returned' = <<>>
  /\ UNCHANGED <<component, maxAttempts, ncalls, logger, client, exporter,
                 manager, derived, console>>

\* shutdown(): the timer is stopped, then flush(), then restore().  The
\* report carries the fields the call found.
ConsoleCapture_shutdown ==
  LET stopped == clearInterval(capture)
      flushed == flush(stopped, calls) IN
  /\ component = "capture"
  /\ Call
  /\ capture' = restore(flushed.capture)
  /\ calls' = flushed.calls
  /\ returned' = << ReturnsFor("ConsoleCapture.shutdown", TRUE, capture) >>
  /\ UNCHANGED <<logger, client, exporter, manager>>

(***************************************************************************)
(* Several ConsoleCapture instances on the one global console.  The five   *)
(* console methods are saved, patched and restored together, so one value  *)
(* stands for the five: Native is what was installed before any instance   *)
(* was constructed and n is the wrapper that instance n installs.  No      *)
(* console call is made here, so the buffers are empty and flush() returns *)
(* at its first line.                                                      *)
(***************************************************************************)
Native == 0

\* new ConsoleCapture(config): this.originals are the functions installed
\* now, patch() installs the wrappers, setInterval starts the timer.
ConsoleCapture_new ==
  LET n == Len(console.captures) + 1 IN
  /\ component = "instances"
  /\ n <= MaxCaptures
  /\ console' = [methods |-> n,
                 captures |-> Append(console.captures,
                                [originals |-> console.methods,
                                 flushTimer |-> TRUE])]
  /\ returned' = << ReturnsFor("new ConsoleCapture", n, console.methods) >>
  /\ UNCHANGED <<component, maxAttempts, calls, ncalls, logger, client,
                 capture, exporter, manager, derived>>

\* shutdown() of instance n: the timer is stopped, flush() finds the buffer
\* empty, restore() installs this.originals.
ConsoleCapture_shutdown_of(n) ==
  /\ component = "instances"
  /\ console' = [methods |-> console.captures[n].originals,
                 captures |-> [console.captures EXCEPT
                                 ![n] = clearInterval(@)]]
  /\ returned' = << ReturnsFor("ConsoleCapture.shutdown", TRUE, n) >>
  /\ UNCHANGED <<component, maxAttempts, calls, ncalls, logger, client,
                 capture, exporter, manager, derived>>

(***************************************************************************)
(* The exporters' export().                                                *)
(***************************************************************************)
\* An ensureEntity that resolves again unless a resolution is pending.
NeedsResolution_unlessPending(e) == e.entityPromise # "pending"
\* An ensureEntity that starts a resolution while one is pending.
NeedsResolution_unlessFulfilled(e) == e.entityPromise # "fulfilled"

\* if (!this.entityPromise)
NeedsResolution(e) == e.entityPromise = "null"

LogDotMetricExporter_export(batch) ==
  /\ component = "metricExporter"
  /\ Call
  /\ CASE NeedsResolution(exporter) ->
            \* ensureEntity starts resolveEntity, which sends the GET.
            /\ exporter' = [exporter EXCEPT !.entityPromise = "pending",
                                            !.waiting = Append(@, batch)]
            /\ calls' = With(calls,
                 HttpStart("LogDotMetricExporter.resolveEntity", "GET",
                           <<BASE_METRICS_URL, ENDPOINT_ENTITIES_BY_NAME>>,
                           [name |-> entityName]))
            /\ returned' = <<>>
       [] exporter.entityPromise = "pending" ->
            /\ Len(exporter.waiting) < MaxInFlight
            /\ exporter' = [exporter EXCEPT !.waiting = Append(@, batch)]
            /\ returned' = <<>>
            /\ UNCHANGED calls
       [] OTHER ->
            \* The promise is fulfilled: doExport goes on.
            /\ AfterEnsure(exporter, batch) = "post"
                 => BagCardinality(calls) < MaxInFlight
            /\ calls' = ResumedRequests(exporter, <<batch>>, calls)
            /\ returned' = ResumedCallbacks(exporter, <<batch>>)
            /\ UNCHANGED exporter
  /\ UNCHANGED <<logger, client, capture, manager>>

LogDotSpanExporter_export(spans) ==
  /\ component = "spanExporter"
  /\ Call
  /\ IF Len(spans) = 0
       THEN /\ returned' = << Callback("LogDotSpanExporter.export", "SUCCESS",
                                       spans, NoHttp, 0) >>
            /\ UNCHANGED calls
       ELSE /\ BagCardinality(calls) < MaxInFlight
            /\ calls' = With(calls,
                 HttpStart("LogDotSpanExporter.doExport", "POST",
                           <<BASE_LOGS_URL, ENDPOINT_BATCH>>,
                           [hostname |-> hostname, logs |-> SpanLogs(spans),
                            batch |-> spans]))
            /\ returned' = <<>>
  /\ UNCHANGED <<logger, client, capture, exporter, manager>>

(***************************************************************************)
(* The API of LogDotMetrics.                                               *)
(***************************************************************************)
\* A call that only starts a request of the manager.
ManagerRequest(op, method, endpoint, name) ==
  /\ component = "manager"
  /\ Call
  /\ BagCardinality(calls) < MaxManagerInFlight
  /\ calls' = With(calls,
       HttpStart(op, method, <<BASE_METRICS_URL, endpoint>>, [name |-> name]))
  /\ returned' = <<>>
  /\ UNCHANGED <<logger, client, capture, exporter, manager>>

LogDotMetrics_createEntity(name) ==
  ManagerRequest("LogDotMetrics.createEntity", "POST", ENDPOINT_ENTITIES, name)

LogDotMetrics_getEntityByName(name) ==
  ManagerRequest("LogDotMetrics.getEntityByName", "GET",
                 ENDPOINT_ENTITIES_BY_NAME, name)

LogDotMetrics_getOrCreateEntity(name) ==
  ManagerRequest("LogDotMetrics.getOrCreateEntity", "GET",
                 ENDPOINT_ENTITIES_BY_NAME, name)

(***************************************************************************)
(* The specification.                                                      *)
(***************************************************************************)
Components ==
  {"logger", "metrics", "capture", "metricExporter", "spanExporter",
   "manager", "context", "backoff", "truncate", "instances",
   "family"}
\* maxAttempts: config.retry?.maxAttempts ?? 3
DefaultMaxAttempts == 3
\* (The loggers of a family are configured with retryAttempts: 1.)

Init ==
  /\ component \in Components
  /\ maxAttempts \in CASE component \in {"logger", "metrics", "manager"} ->
                            0..MaxRetryAttempts
                         [] component = "family" -> {1}
                         [] OTHER -> {DefaultMaxAttempts}
  /\ calls = EmptyBag
  /\ ncalls = 0
  /\ returned = <<>>
  /\ logger \in [batchMode : {FALSE}, batchQueue : {<<>>}, appended : {<<>>},
                 context : IF component \in {"logger", "context"}
                             THEN Contexts
                           ELSE {EmptyObject}]
  /\ client = [batchMode |-> FALSE, multiBatchMode |-> FALSE,
               batchMetricName |-> "", batchUnit |-> "", batchQueue |-> <<>>,
               appended |-> <<>>,
               lastError |-> "", lastHttpCode |-> -1]
  /\ capture = [buffer |-> <<>>, flushing |-> FALSE,
                flushTimer |-> component = "capture",
                patched |-> component = "capture"]
  /\ exporter = [entityId |-> "", entityPromise |-> "null", waiting |-> <<>>]
  /\ manager = [lastError |-> "", lastHttpCode |-> -1]
  /\ derived = <<>>
  /\ console = [methods |-> Native, captures |-> <<>>]

\* The steps of the requests in flight.
HttpSteps ==
  \/ \E c \in BagToSet(calls): FetchResolves(c)
  \/ \E c \in BagToSet(calls), s \in Statuses:
       \E id \in ResponseIds(c.url): BodyRead(c, s, id)
  \/ \E c \in BagToSet(calls): AttemptTimesOut(c)
  \/ \E c \in BagToSet(calls): AttemptFails(c)
  \/ \E c \in BagToSet(calls): BackoffElapses(c)

\* The step of a request whose client was configured with no attempt at all.
NoAttemptSteps == \E c \in BagToSet(calls): ThrowsLastError(c)

\* The calls the application makes on each object.
LoggerCalls ==
  \/ \E in \in LogInputs: LogDotLogger_log(in)
  \/ LogDotLogger_beginBatch
  \/ LogDotLogger_sendBatch
  \/ LogDotLogger_endBatch
  \/ LogDotLogger_clearBatch

MetricsCalls ==
  \/ \E in \in MetricInputs: BoundMetricsClient_send(in)
  \/ \E in \in BatchInputs: BoundMetricsClient_beginBatch(in)
  \/ \E in \in AddInputs: BoundMetricsClient_add(in)
  \/ BoundMetricsClient_beginMultiBatch
  \/ \E in \in MetricInputs: BoundMetricsClient_addMetric(in)
  \/ BoundMetricsClient_sendBatch
  \/ BoundMetricsClient_endBatch
  \/ BoundMetricsClient_clearBatch

CaptureCalls ==
  \/ \E in \in ConsoleInputs: ConsoleCall(in)
  \/ TimerFires
  \/ ConsoleCapture_shutdown

ExporterCalls ==
  \/ \E batch \in MetricBatches: LogDotMetricExporter_export(batch)
  \/ \E spans \in SpanBatches: LogDotSpanExporter_export(spans)

ContextCalls ==
  \E n \in 0..Len(derived), given \in ContextInputs:
    LogDotLogger_withContext(n, given)

BackoffCalls == \E in \in BackoffInputs: HttpClient_calculateBackoff(in)

TruncateCalls == \E in \in TruncateInputs: truncateBytes_called(in)

\* A family of loggers: withContext() on any of them, and log() and
\* beginBatch() on any of them.
FamilyInputs == {[level |-> "info", message |-> "a", tags |-> Undefined]}
FamilyCalls ==
  \/ \E n \in 0..Len(derived): LogDotLogger_withContext(n, [user |-> 2])
  \/ \E n \in 0..Len(derived), in \in FamilyInputs:
       LogDotLogger_log_on(n, in)
  \/ \E n \in 0..Len(derived): LogDotLogger_beginBatch_on(n)

InstanceCalls ==
  \/ ConsoleCapture_new
  \/ \E n \in 1..Len(console.captures): ConsoleCapture_shutdown_of(n)

ManagerCalls ==
  \/ \E name \in EntityNames: LogDotMetrics_createEntity(name)
  \/ \E name \in EntityNames: LogDotMetrics_getEntityByName(name)
  \/ \E name \in EntityNames: LogDotMetrics_getOrCreateEntity(name)

Next ==
  \/ HttpSteps
  \/ NoAttemptSteps
  \/ LoggerCalls
  \/ MetricsCalls
  \/ CaptureCalls
  \/ ExporterCalls
  \/ ManagerCalls
  \/ ContextCalls
  \/ BackoffCalls
  \/ TruncateCalls
  \/ InstanceCalls
  \/ FamilyCalls

Spec == Init /\ [][Next]_vars

\* The behaviours of Spec with one kind of object: the scenario is chosen in
\* Init and never changes, and each call is enabled in its own scenario only.
InitLogger == Init /\ component = "logger"
SpecLogger ==
  InitLogger /\ [][HttpSteps \/ NoAttemptSteps \/ LoggerCalls]_vars

InitMetrics == Init /\ component = "metrics"
SpecMetrics ==
  InitMetrics /\ [][HttpSteps \/ NoAttemptSteps \/ MetricsCalls]_vars

\* The two objects that send through an HttpClient with a configured
\* number of attempts and keep a batch queue.
InitSenders == Init /\ component \in {"logger", "metrics"}
SpecSenders ==
  InitSenders
    /\ [][HttpSteps \/ NoAttemptSteps \/ LoggerCalls \/ MetricsCalls]_vars

\* The HttpClient of a ConsoleCapture has the default three attempts.
InitCapture == Init /\ component = "capture"
SpecCapture == InitCapture /\ [][HttpSteps \/ CaptureCalls]_vars

\* What the runtime's timers guarantee: the abort timer of an attempt fires
\* unless fetch() has settled first, and the sleep of a backoff ends.
TimerSteps ==
  \E c \in BagToSet(calls): AttemptTimesOut(c) \/ BackoffElapses(c)
\* A ConsoleCapture whose timers fire: those of its requests and, while it
\* is set, its flush interval.  Nothing makes a server answer: that fetch()
\* resolves or that a response body arrives is not assumed.
FairSpecCapture ==
  SpecCapture /\ WF_vars(TimerSteps) /\ WF_vars(TimerFires)

InitContext == Init /\ component = "context"
SpecContext == InitContext /\ [][ContextCalls]_vars

InitExporters == Init /\ component \in {"metricExporter", "spanExporter"}
SpecExporters == InitExporters /\ [][HttpSteps \/ ExporterCalls]_vars

InitBackoff == Init /\ component = "backoff"
SpecBackoff == InitBackoff /\ [][BackoffCalls]_vars

InitTruncate == Init /\ component = "truncate"
SpecTruncate == InitTruncate /\ [][TruncateCalls]_vars

InitFamily == Init /\ component = "family"
SpecFamily == InitFamily /\ [][FamilyCalls]_vars

InitManager == Init /\ component = "manager"
SpecManager ==
  InitManager /\ [][HttpSteps \/ NoAttemptSteps \/ ManagerCalls]_vars

(***************************************************************************)
(* Properties.                                                             *)
(***************************************************************************)
\* The reports of the step just taken.
Reports == {returned[n] : n \in 1..Len(returned)}
ReportsAfter == {returned'[n] : n \in 1..Len(returned')}
\* The send operations of the logger and of the bound metrics client.
SendOps ==
  {"LogDotLogger.log", "LogDotLogger.sendBatch", "BoundMetricsClient.send",
   "BoundMetricsClient.sendBatch"}
SendBatchOps == {"LogDotLogger.sendBatch", "BoundMetricsClient.sendBatch"}
\* The request a report is about was answered with 200 or 201.
Delivered(r) == r.http.ok /\ IsSuccess(r.http.status)
\* The report ends a call that awaited an HTTP request.
Awaited(r) == r.how \in {"resolved", "rejected", "callback"} /\ r.http # NoHttp

\* C1: log/debug/info/warn/error/sendBatch of the logger and send/sendBatch
\* of the bound metrics client never reject, whatever the retry
\* configuration and the transport outcome: each call ends with a boolean,
\* which is false whenever the request was not answered with 200/201.
C1_SendsNeverReject ==
  \A r \in Reports:
    r.op \in SendOps =>
      /\ r.how \in {"returned", "resolved"}
      /\ r.value \in BOOLEAN
      /\ (Awaited(r) /\ ~Delivered(r)) => r.value = FALSE

\* C2: the step in which a sendBatch() that issued its POST ends: after a
\* 200/201 it resolves true and the queue is empty; after any other status,
\* or when the transport threw, it resolves false and the queue is the one
\* before the step, entry by entry.
C2_SendBatchOutcome ==
  [][\A r \in ReportsAfter:
       (r.op \in SendBatchOps /\ Awaited(r) /\ r.attempts >= 1) =>
         IF Delivered(r)
           THEN /\ r.how = "resolved" /\ r.value = TRUE
                /\ logger'.batchQueue = <<>>
                /\ client'.batchQueue = <<>>
           ELSE /\ r.how = "resolved" /\ r.value = FALSE
                /\ logger'.batchQueue = logger.batchQueue
                /\ client'.batchQueue = client.batchQueue]_vars

\* A logger's sendBatch() has failed after the transport threw on every
\* attempt, and the two queued entries are still queued.
C2_Witness ==
  \E r \in Reports:
    /\ r.op = "LogDotLogger.sendBatch" /\ Awaited(r) /\ r.attempts >= 1
    /\ ~r.http.ok /\ r.value = FALSE
    /\ Len(logger.batchQueue) = 2

\* C7: a request that has read an HTTP response, of whatever status, is
\* over: no request in flight (attempting, backing off) has read one, and a
\* request is at a later attempt only after the attempt before threw.  The
\* response is what the request settles with, after that one attempt.
C7_ResponseEndsRequest ==
  /\ \A c \in BagToSet(calls):
       /\ c.responses = 0
       /\ c.phase = "sleep" => c.lastError = Err(c.attempt)
       /\ (c.phase # "sleep" /\ c.attempt >= 1) =>
            c.lastError = Err(c.attempt - 1)
  /\ \A r \in Reports:
       (Awaited(r) /\ r.http.ok) =>
         /\ r.http.status \in Statuses
         /\ r.attempts >= 1

\* The first attempt was answered with a 500 and the request ended there,
\* although one more attempt was allowed.
C7_Witness ==
  \E r \in Reports:
    /\ Awaited(r) /\ r.http.ok /\ r.http.status = 500
    /\ r.attempts = 1 /\ maxAttempts = 2

\* C8: a request makes at most maxAttempts attempts; one that was answered
\* made no attempt after the answered one; one that rejects has made
\* maxAttempts attempts and rejects with the error of the last of them.
C8_AttemptsBounded ==
  /\ \A c \in BagToSet(calls): AttemptsMade(c) <= maxAttempts
  /\ \A r \in Reports:
       Awaited(r) =>
         /\ r.attempts <= maxAttempts
         /\ ~r.http.ok =>
              /\ r.attempts = maxAttempts
              /\ r.attempts >= 1 => r.http.error = Err(r.attempts - 1)

\* Two attempts were allowed, both threw, and the request rejected with the
\* error of the second.
C8_Witness ==
  \E r \in Reports:
    /\ Awaited(r) /\ ~r.http.ok
    /\ r.attempts = 2 /\ maxAttempts = 2 /\ r.http.error = Err(1)

\* The request that the step adds to those in flight, if it is the POST of
\* a sendBatch().
NewBatchPosts ==
  {c \in BagToSet(calls') :
     /\ c.op \in SendBatchOps
     /\ CopiesIn(c, calls') > CopiesIn(c, calls)
     /\ c.attempt = 0 /\ c.phase \in {"fetch", "throw"}}

\* C9: the payload of a sendBatch() POST lists the entries appended to the
\* batch, in the order of the calls that appended them, each once.
C9_BatchFifo ==
  [][\A c \in NewBatchPosts:
       IF c.op = "LogDotLogger.sendBatch"
         THEN /\ Len(c.body.logs) = Len(logger.appended)
              /\ \A n \in 1..Len(logger.appended):
                   c.body.logs[n] = BatchLog(logger.appended[n])
         ELSE /\ Len(c.body.metrics) = Len(client.appended)
              /\ \A n \in 1..Len(client.appended):
                   c.body.metrics[n] =
                     BatchMetric(client.appended[n], client.multiBatchMode)]_vars

\* A sendBatch() POST in flight that carries two different entries, the one
\* logged first in front.
C9_Witness ==
  \E c \in BagToSet(calls):
    /\ c.op = "LogDotLogger.sendBatch"
    /\ Len(c.body.logs) = 2
    /\ c.body.logs[1].message = "a" /\ c.body.logs[2].message = "b"

\* The tags of an entry are the context overridden key by key by `tags`.
Overridden(entryTags, context, tags) ==
  LET merged == IF entryTags.defined THEN entryTags.value ELSE EmptyObject IN
  /\ Keys(merged) = Keys(context) \cup Keys(tags.value)
  /\ \A k \in Keys(merged):
       merged[k] = IF k \in Keys(tags.value) THEN tags.value[k]
                   ELSE context[k]

\* C10: in batch mode log(level, message, tags) appends one entry to the
\* end of the queue, with the level, the message and the context's tags
\* overridden by the call's, returns true and starts no request.
C10_BatchLogAppends ==
  [][\A r \in ReportsAfter:
       (r.op = "LogDotLogger.log" /\ r.how = "returned") =>
         /\ logger.batchMode
         /\ r.value = TRUE
         /\ calls' = calls
         /\ Len(logger'.batchQueue) = Len(logger.batchQueue) + 1
         /\ SubSeq(logger'.batchQueue, 1, Len(logger.batchQueue))
              = logger.batchQueue
         /\ LET entry == Last(logger'.batchQueue) IN
              /\ entry.level = r.input.level
              /\ entry.message = r.input.message
              /\ Overridden(entry.tags, logger.context, r.input.tags)]_vars

\* A second entry has just been queued whose tag user is the call's 2, not
\* the context's 1, and whose tag env is the context's.
C10_Witness ==
  /\ \E r \in Reports: r.op = "LogDotLogger.log" /\ r.how = "returned"
  /\ Len(logger.batchQueue) = 2
  /\ logger.context = [env |-> 1, user |-> 1]
  /\ Last(logger.batchQueue).tags.value = [env |-> 1, user |-> 2]

\* The entry a patched console method makes of a call.
ConsoleEntry(in) ==
  [message |-> in.text, severity |-> LEVEL_MAP[in.method],
   tags |-> [source |-> "console"]]
FlushesInFlight == {c \in BagToSet(calls) : c.op = "ConsoleCapture.flush"}

\* C3: a console call of the application made while the POST of a flush is
\* pending is buffered: its entry is the new last entry of the buffer.
C3_CallsDuringFlushBuffered ==
  [][\A r \in ReportsAfter:
       (r.op = "console" /\ capture.patched /\ FlushesInFlight # {}) =>
         capture'.buffer = Append(capture.buffer, ConsoleEntry(r.input))]_vars

C5_MemoResetWithoutId ==
  exporter.entityId = "" => exporter.entityPromise \in {"null", "pending"}

\* The entries a batch given to export() translates to.
Translated(r) ==
  IF r.op = "LogDotMetricExporter.export"
    THEN Len(convertMetricData(r.batch))
    ELSE Len(SpanLogs(r.batch))

\* C6: export() reports FAILED when the batch POST threw or was answered
\* with a status other than 200/201, and SUCCESS only when the POST of the
\* batch was answered with 200/201 or the batch translated to nothing.
C6_ExportResult ==
  \A r \in Reports:
    r.how = "callback" =>
      /\ r.value \in {"SUCCESS", "FAILED"}
      /\ (Awaited(r) /\ ~Delivered(r)) => r.value = "FAILED"
      /\ r.value = "SUCCESS" => (Delivered(r) \/ Translated(r) = 0)

\* The mode and the queue of the bound metrics client.
ClientBatch(c) ==
  <<c.batchMode, c.multiBatchMode, c.batchMetricName, c.batchUnit,
    c.batchQueue>>
\* The calls of the bound metrics client that the mode may refuse.
ModalOps ==
  {"BoundMetricsClient.add", "BoundMetricsClient.addMetric",
   "BoundMetricsClient.send"}
\* The mode refuses the operation.
WrongMode(op, c) ==
  CASE op = "BoundMetricsClient.add" -> ~c.batchMode \/ c.multiBatchMode
    [] op = "BoundMetricsClient.addMetric" -> ~c.multiBatchMode
    [] op = "BoundMetricsClient.send" -> c.batchMode
\* The requests the step starts.
NewRequests ==
  {c \in BagToSet(calls') :
     /\ CopiesIn(c, calls') > CopiesIn(c, calls)
     /\ c.attempt = 0 /\ c.phase \in {"fetch", "throw"}}

\* C11: add() outside single-metric batch mode, addMetric() outside
\* multi-metric mode and send() in a batch mode return false, record a
\* non-empty error string, start no request and leave mode and queue as
\* they are.
C11_WrongModeRefused ==
  [][/\ \A r \in ReportsAfter:
          (r.op \in ModalOps /\ r.how = "returned"
             /\ WrongMode(r.op, client)) =>
            /\ r.value = FALSE
            /\ client'.lastError # ""
            /\ calls' = calls
            /\ ClientBatch(client') = ClientBatch(client)
     /\ \A c \in NewRequests:
          c.op = "BoundMetricsClient.send" => ~client.batchMode]_vars

\* add() has just been refused in multi-metric mode, with one metric queued.
C11_Witness ==
  /\ \E r \in Reports: r.op = "BoundMetricsClient.add" /\ r.value = FALSE
  /\ client.multiBatchMode /\ Len(client.batchQueue) = 1
  /\ client.lastError =
       "Not in single-metric batch mode. Call beginBatch() first."

\* The requests of getOrCreateEntity that the step takes out of flight.
GetOrCreateSettled ==
  {c \in BagToSet(calls) :
     /\ c.op = "LogDotMetrics.getOrCreateEntity"
     /\ CopiesIn(c, calls') < CopiesIn(c, calls)
     /\ returned' # <<>>}
\* The step ends getOrCreateEntity with the entity (or null) of `inner`.
EndsGetOrCreate(inner, entity) ==
  /\ NewRequests = {}
  /\ Len(returned') = 2
  /\ returned'[2].op = "LogDotMetrics.getOrCreateEntity"
  /\ returned'[2].how = "resolved"
  /\ returned'[2].value = entity

\* C12: getOrCreateEntity starts with the by-name GET; a 200 with an id
\* ends it with the found entity and no create POST; any other end of the
\* lookup is followed by exactly one create POST, whose 200/201 with an id
\* gives the entity and whose every other end gives null.
C12_GetOrCreateEntity ==
  [][/\ \A c \in GetOrCreateSettled:
          LET inner == returned'[1] IN
          IF c.method = "GET"
            THEN /\ inner.op = "LogDotMetrics.getEntityByName"
                 /\ inner.how = "resolved" =>
                      IF inner.http.ok /\ inner.http.status = 200
                           /\ inner.http.id # ""
                        THEN EndsGetOrCreate(inner, inner.http.id)
                        ELSE /\ Len(returned') = 1
                             /\ \E n \in NewRequests:
                                  /\ NewRequests = {n}
                                  /\ CopiesIn(n, calls') =
                                       CopiesIn(n, calls) + 1
                                  /\ n.op = c.op /\ n.method = "POST"
                                  /\ n.url =
                                       <<BASE_METRICS_URL, ENDPOINT_ENTITIES>>
            ELSE /\ inner.op = "LogDotMetrics.createEntity"
                 /\ EndsGetOrCreate(inner,
                      IF inner.http.ok /\ inner.http.status \in {200, 201}
                           /\ inner.http.id # ""
                        THEN inner.http.id ELSE NoEntity)
     /\ \A n \in NewRequests:
          n.op = "LogDotMetrics.getOrCreateEntity" =>
            IF ncalls' = ncalls + 1
              THEN /\ n.method = "GET"
                   /\ n.url = <<BASE_METRICS_URL, ENDPOINT_ENTITIES_BY_NAME>>
              ELSE \E c \in GetOrCreateSettled: c.method = "GET"]_vars

\* The lookup found nothing, the create POST was answered 201 with an id,
\* and getOrCreateEntity has ended with that entity.
C12_Witness ==
  /\ Len(returned) = 2
  /\ returned[1].op = "LogDotMetrics.createEntity"
  /\ returned[1].http.status = 201
  /\ returned[2].op = "LogDotMetrics.getOrCreateEntity"
  /\ returned[2].value = "E1"

\* The calls whose failure getLastError()/getLastHttpCode() describe, and
\* the object that keeps lastError and lastHttpCode for each.
ClientTrackedOps == {"BoundMetricsClient.send", "BoundMetricsClient.sendBatch"}
ManagerTrackedOps ==
  {"LogDotMetrics.createEntity", "LogDotMetrics.getEntityByName"}
Tracker(r) == IF r.op \in ClientTrackedOps THEN client ELSE manager
\* The call the report ends has failed: false, or no entity.
Failed(r) ==
  \/ r.how = "rejected"
  \/ IF r.op \in ClientTrackedOps THEN r.value = FALSE ELSE r.value = NoEntity

\* C13: after a failed createEntity, getEntityByName, send or sendBatch
\* that made its request, lastError is non-empty and lastHttpCode is the
\* status this call was answered with; when the call had no answer,
\* lastHttpCode is no status of an answer (none is left over from an
\* earlier call).
C13_ErrorDescribesFailedCall ==
  \A r \in Reports:
    (r.op \in ClientTrackedOps \cup ManagerTrackedOps
       /\ Awaited(r) /\ r.attempts >= 1 /\ Failed(r)) =>
      /\ Tracker(r).lastError # ""
      /\ IF r.http.ok
           THEN Tracker(r).lastHttpCode = r.http.status
           ELSE Tracker(r).lastHttpCode \notin Statuses

ShutdownOp == "ConsoleCapture.shutdown"
\* The payload of a flush of the entries `buffer`.
FlushPayload(buffer) == [hostname |-> hostname, logs |-> buffer]
FlushRequests(cs) == {c \in BagToSet(cs) : c.op = "ConsoleCapture.flush"}

\* C14: shutdown() leaves the timer stopped, the buffer empty and the
\* console restored; for the entries it found buffered it starts exactly
\* one POST, which carries them all in order, and none when there were
\* none; and with the timer stopped, the timer starts no flush: from then
\* on only a console call or shutdown() can start one.
C14_ShutdownStopsFlushesRestores ==
  [][/\ \A r \in ReportsAfter:
          r.op = ShutdownOp =>
            /\ ~capture'.flushTimer
            /\ ~capture'.patched
            /\ capture'.buffer = <<>>
            /\ IF capture.buffer = <<>>
                 THEN calls' = calls
                 ELSE /\ Cardinality(NewRequests) = 1
                      /\ \A c \in NewRequests:
                           /\ c.op = "ConsoleCapture.flush"
                           /\ c.body = FlushPayload(capture.buffer)
                           /\ CopiesIn(c, calls') = CopiesIn(c, calls) + 1
     /\ ~capture.flushTimer =>
          /\ ~capture'.flushTimer
          /\ (\E c \in NewRequests: c.op = "ConsoleCapture.flush") =>
               \E r \in ReportsAfter: r.op \in {ShutdownOp, "console"}]_vars

\* shutdown() has just returned after one console call: the entry that
\* call buffered is in the one POST in flight, not yet answered.
C14_Witness ==
  /\ ncalls = 2
  /\ \E r \in Reports:
       r.op = ShutdownOp /\ r.input.flushTimer /\ Len(r.input.buffer) = 1
  /\ \E c \in FlushRequests(calls):
       c.attempt = 0 /\ c.phase = "fetch" /\ Len(c.body.logs) = 1
  /\ ~capture.flushTimer /\ ~capture.patched /\ capture.flushing

\* C15: a shutdown() that finds the timer already stopped by an earlier
\* shutdown() leaves the console restored and the timer stopped and starts
\* no request: the requests in flight are the ones there were.
C15_ShutdownIdempotent ==
  [][\A r \in ReportsAfter:
       (r.op = ShutdownOp /\ ~capture.flushTimer) =>
         /\ ~capture'.patched
         /\ ~capture'.flushTimer
         /\ capture' = capture
         /\ calls' = calls]_vars

\* A second shutdown() has just returned while the POST of the first one's
\* final flush is still in flight, and console calls were made in between.
C15_Witness ==
  /\ \E r \in Reports:
       r.op = ShutdownOp /\ ~r.input.flushTimer /\ ~r.input.patched
  /\ ncalls = 4
  /\ \E c \in FlushRequests(calls): Len(c.body.logs) = 1
  /\ capture.flushing /\ capture.buffer = <<>>

\* C16: the step that ends a flush, whatever its POST came to, leaves the
\* buffer as it is and starts no request; the step that puts entries into
\* the payload of a flush empties the buffer; and the buffer changes in no
\* other way than by being emptied or by a console call appending its one
\* entry.  So an entry enters the buffer once and leaves it into one
\* payload.
C16_FailedFlushDropped ==
  [][/\ \A r \in ReportsAfter:
          r.op = "ConsoleCapture.flush" =>
            /\ capture'.buffer = capture.buffer
            /\ NewRequests = {}
     /\ \A c \in NewRequests:
          c.op = "ConsoleCapture.flush" =>
            /\ capture'.buffer = <<>>
            /\ \/ c.body.logs = capture.buffer
               \/ \E r \in ReportsAfter:
                    /\ r.op = "console"
                    /\ c.body.logs =
                         Append(capture.buffer, ConsoleEntry(r.input))
     /\ \/ capture'.buffer = capture.buffer
        \/ capture'.buffer = <<>>
        \/ \E r \in ReportsAfter:
             /\ r.op = "console"
             /\ capture'.buffer =
                  Append(capture.buffer, ConsoleEntry(r.input))]_vars

\* A flush has just ended with its POST rejected after the last attempt:
\* the buffer is empty and the next console call will be buffered.
C16_Witness ==
  /\ \E r \in Reports:
       /\ r.op = "ConsoleCapture.flush"
       /\ ~r.http.ok /\ r.attempts = DefaultMaxAttempts
  /\ capture.buffer = <<>> /\ ~capture.flushing
  /\ capture.patched

\* C17: the buffer holds fewer than maxBufferSize entries whenever a step
\* has ended, and the buffered console call whose entry is the
\* maxBufferSize-th leaves the buffer empty and all of them, in order, in
\* the payload of a POST it has started.
C17_BufferBounded ==
  [][/\ Len(capture.buffer) < maxBufferSize
     /\ Len(capture'.buffer) < maxBufferSize
     /\ \A r \in ReportsAfter:
          (/\ r.op = "console" /\ capture.patched /\ ~capture.flushing
           /\ Len(capture.buffer) + 1 >= maxBufferSize) =>
            /\ capture'.buffer = <<>>
            /\ \E c \in NewRequests:
                 /\ c.op = "ConsoleCapture.flush"
                 /\ c.body.logs =
                      Append(capture.buffer, ConsoleEntry(r.input))]_vars

\* A console call has just returned after starting the POST of a flush
\* with maxBufferSize entries, the buffer empty again.
C17_Witness ==
  /\ \E r \in Reports: r.op = "console"
  /\ ncalls = maxBufferSize
  /\ \E c \in FlushRequests(calls):
       /\ Len(c.body.logs) = maxBufferSize
       /\ c.attempt = 0 /\ c.phase = "fetch"
  /\ capture.buffer = <<>> /\ capture.flushing

\* C18: every console call has invoked the original function exactly once,
\* with the arguments it was given.
C18_OriginalAlwaysCalled ==
  \A r \in Reports: r.op = "console" => r.output = << r.input >>

\* console.error has just returned while the console is patched and the
\* POST of a flush is waiting for its answer.
C18_Witness ==
  /\ \E r \in Reports:
       r.op = "console" /\ r.input.method = "error" /\ Len(r.output) = 1
  /\ capture.patched /\ capture.flushing
  /\ \E c \in FlushRequests(calls): c.phase = "fetch"

\* The mode and the queue of an accumulator.
Accumulator(o) == <<o.batchMode, o.batchQueue>>
ClientAccumulator(c) == <<c.batchMode, c.multiBatchMode, c.batchQueue>>

\* C19: a sendBatch() request is started only in batch mode with a
\* non-empty queue, and a sendBatch() that returns at its guard resolves
\* false, starts no request and leaves the mode and the queue as they are,
\* for the logger and for the bound metrics client.
C19_SendBatchNothingToSend ==
  [][/\ \A c \in NewRequests:
          /\ c.op = "LogDotLogger.sendBatch" =>
               logger.batchMode /\ logger.batchQueue # <<>>
          /\ c.op = "BoundMetricsClient.sendBatch" =>
               client.batchMode /\ client.batchQueue # <<>>
     /\ \A r \in ReportsAfter:
          (r.op \in SendBatchOps /\ r.how = "returned") =>
            /\ r.value = FALSE
            /\ calls' = calls
            /\ Accumulator(logger') = Accumulator(logger)
            /\ ClientAccumulator(client') = ClientAccumulator(client)
            /\ IF r.op = "LogDotLogger.sendBatch"
                 THEN ~logger.batchMode \/ logger.batchQueue = <<>>
                 ELSE ~client.batchMode \/ client.batchQueue = <<>>]_vars

\* sendBatch() of a bound client has just returned false in multi-metric
\* batch mode with an empty queue, with nothing in flight.
C19_Witness ==
  /\ \E r \in Reports:
       /\ r.op = "BoundMetricsClient.sendBatch"
       /\ r.how = "returned" /\ r.value = FALSE
  /\ client.batchMode /\ client.multiBatchMode /\ client.batchQueue = <<>>
  /\ calls = EmptyBag

\* C20: beginBatch() of the logger and beginBatch(name, unit) and
\* beginMultiBatch() of the bound client leave batch mode (single-metric,
\* with that name and unit, or multi-metric) and an empty queue; endBatch()
\* leaves no batch mode and an empty queue; clearBatch() leaves an empty
\* queue and the mode it found.
C20_BatchModeTransitions ==
  [][\A r \in ReportsAfter:
       /\ r.op = "LogDotLogger.beginBatch" =>
            logger'.batchMode /\ logger'.batchQueue = <<>>
       /\ r.op = "LogDotLogger.endBatch" =>
            ~logger'.batchMode /\ logger'.batchQueue = <<>>
       /\ r.op = "LogDotLogger.clearBatch" =>
            /\ logger'.batchQueue = <<>>
            /\ logger'.batchMode = logger.batchMode
       /\ r.op = "BoundMetricsClient.beginBatch" =>
            /\ client'.batchMode /\ ~client'.multiBatchMode
            /\ client'.batchQueue = <<>>
            /\ client'.batchMetricName = r.input.name
            /\ client'.batchUnit = r.input.unit
       /\ r.op = "BoundMetricsClient.beginMultiBatch" =>
            /\ client'.batchMode /\ client'.multiBatchMode
            /\ client'.batchQueue = <<>>
       /\ r.op = "BoundMetricsClient.endBatch" =>
            /\ ~client'.batchMode /\ ~client'.multiBatchMode
            /\ client'.batchQueue = <<>>
       /\ r.op = "BoundMetricsClient.clearBatch" =>
            /\ client'.batchQueue = <<>>
            /\ client'.batchMode = client.batchMode
            /\ client'.multiBatchMode = client.multiBatchMode]_vars

\* beginMultiBatch() has just returned as the fourth call, after
\* beginBatch, add and a sendBatch whose POST is still in flight: the
\* entry queued in single-metric mode is gone from the queue.
C20_Witness ==
  /\ \E r \in Reports: r.op = "BoundMetricsClient.beginMultiBatch"
  /\ ncalls = 4
  /\ \E c \in BagToSet(calls): c.op = "BoundMetricsClient.sendBatch"
  /\ client.batchMode /\ client.multiBatchMode /\ client.batchQueue = <<>>

\* The requests in flight for a log() call.
LogRequests(cs) == {c \in BagToSet(cs) : c.op = "LogDotLogger.log"}

\* C21: outside batch mode log() starts exactly one request, a POST to the
\* single-log endpoint, and leaves the logger as it is; the step that ends
\* the call after at least one attempt starts no further request, leaves
\* the queue as it is and resolves true exactly when the answer was 200 or
\* 201 (false when there was another answer or none).
C21_SingleLog ==
  [][/\ \A c \in NewRequests:
          c.op = "LogDotLogger.log" =>
            /\ ~logger.batchMode
            /\ c.method = "POST"
            /\ c.url = <<BASE_LOGS_URL, ENDPOINT_SINGLE>>
            /\ Cardinality(NewRequests) = 1
            /\ CopiesIn(c, calls') = CopiesIn(c, calls) + 1
            /\ logger' = logger
     /\ \A r \in ReportsAfter:
          (r.op = "LogDotLogger.log" /\ Awaited(r) /\ r.attempts >= 1) =>
            /\ r.how = "resolved"
            /\ r.value = (r.http.ok /\ r.http.status \in {200, 201})
            /\ NewRequests = {}
            /\ logger'.batchQueue = logger.batchQueue]_vars

\* A log() call has just resolved true after a 201, while the logger, put
\* in batch mode in the meantime, holds a queued entry.
C21_Witness ==
  /\ \E r \in Reports:
       /\ r.op = "LogDotLogger.log" /\ r.how = "resolved"
       /\ r.value = TRUE /\ r.http.ok /\ r.http.status = 201
  /\ logger.batchMode /\ Len(logger.batchQueue) = 1

\* Context a overridden key by key by x.
Override(a, x) ==
  [k \in Keys(a) \cup Keys(x) |-> IF k \in Keys(x) THEN x[k] ELSE a[k]]
Loggers == 0..Len(derived)
LoggersAfter == 0..Len(derived')
ContextAfter(n) == IF n = 0 THEN logger'.context ELSE derived'[n].context

\* C22: a withContext call changes the context of no logger there is, and
\* the logger it returns has the receiver's context overridden by the
\* context given; so a logger obtained from logger A by withContext(X) and
\* then withContext(Y) has A's context overridden by X and then by Y.
C22_WithContext ==
  [][/\ \A n \in Loggers: ContextAfter(n) = ContextOf(n)
     /\ \A r \in ReportsAfter:
          r.op = "LogDotLogger.withContext" =>
            /\ LoggersAfter = Loggers \cup {r.value}
            /\ r.value \notin Loggers
            /\ ContextAfter(r.value) =
                 Override(ContextOf(r.input.this), r.input.context)
            /\ r.input.this > 0 =>
                 LET x == derived[r.input.this] IN
                 ContextAfter(r.value) =
                   Override(Override(ContextOf(x.parent), x.given),
                            r.input.context)]_vars

\* Logger 2 is A.withContext(X).withContext(Y) where A has user 1, X user 2
\* and Y user 3: its user is 3, A's is still 1 and the intermediate
\* logger's still 2.
C22_Witness ==
  /\ Len(derived) >= 2
  /\ derived[1].parent = 0 /\ derived[2].parent = 1
  /\ logger.context = [env |-> 1, user |-> 1]
  /\ derived[1].context = [env |-> 1, user |-> 2]
  /\ derived[2].context = [env |-> 1, user |-> 3, region |-> 1]
  /\ \E r \in Reports: r.op = "LogDotLogger.withContext" /\ r.value = 2

ResolutionOp == "LogDotMetricExporter.resolveEntity"
BatchOp == "LogDotMetricExporter.doExport"

\* C23: while the exporter holds an entity id, no step starts the GET or
\* the POST of a resolution and the id stays the one it is; and every
\* metrics batch request is started with the id the exporter holds.
C23_EntityIdCached ==
  [][/\ exporter.entityId # "" =>
          /\ exporter'.entityId = exporter.entityId
          /\ \A c \in NewRequests: c.op # ResolutionOp
     /\ \A c \in NewRequests:
          c.op = BatchOp =>
            /\ exporter'.entityId # ""
            /\ c.body.entity_id = exporter'.entityId]_vars

\* The second export() has just started its batch POST with the id the
\* resolution of the first one yielded; nothing else is in flight.
C23_Witness ==
  /\ ncalls = 2 /\ returned = <<>>
  /\ exporter.entityId = "E1" /\ exporter.entityPromise = "fulfilled"
  /\ exporter.waiting = <<>>
  /\ BagCardinality(calls) = 1
  /\ \E c \in BagToSet(calls):
       /\ c.op = BatchOp /\ c.attempt = 0 /\ c.phase = "fetch"
       /\ c.body.entity_id = "E1"

BackoffReports == {r \in Reports : r.op = "HttpClient.calculateBackoff"}
\* The least and the greatest uncapped delay after attempt i, and the cap.
BackoffLow(in) == 1000 * in.baseDelayMs * 2^in.attempt
BackoffHigh(in) == 1300 * in.baseDelayMs * 2^in.attempt
BackoffCap(in) == 1000 * in.maxDelayMs

\* C24: the delay after failed attempt i is at most maxDelay, and it is
\* min(d, maxDelay) for a d between baseDelay*2^i and baseDelay*2^i*1.3:
\* either it lies in that interval, or it is maxDelay and the interval
\* reaches maxDelay.
C24_BackoffBounds ==
  \A r \in BackoffReports:
    /\ r.value <= BackoffCap(r.input)
    /\ \/ BackoffLow(r.input) <= r.value /\ r.value <= BackoffHigh(r.input)
       \/ r.value = BackoffCap(r.input)
            /\ BackoffHigh(r.input) >= BackoffCap(r.input)

\* A delay cut to maxDelay 2500 ms: after attempt 2 with baseDelay 1000 ms
\* and a jitter of half its range the uncapped delay is 4600 ms.
C24_Witness ==
  \E r \in BackoffReports:
    /\ r.input = [baseDelayMs |-> 1000, maxDelayMs |-> 2500, attempt |-> 2,
                  random |-> 50]
    /\ r.value = 2500000

Has(obj, key) == key \in DOMAIN obj
\* The "key:value" strings of a tags object.
TagStrings(tags) == { k \o ":" \o tags[k] : k \in Keys(tags) }
NewMetricBatchPosts ==
  {c \in NewRequests : c.op = "BoundMetricsClient.sendBatch"}

\* C25: the payload of a bound client's sendBatch() has one element per
\* queued entry; in single-metric mode it has the beginBatch name at top
\* level and no element has a name, in multi-metric mode it has no
\* top-level name and every element has the name of its entry; in both, an
\* element has its entry's tags as "key:value" strings, and no tags field
\* when the entry has none.
C25_BatchPayloadShape ==
  [][\A c \in NewMetricBatchPosts:
       LET queue == client.batchQueue
           metrics == c.body.metrics IN
       /\ Len(metrics) = Len(queue)
       /\ IF client.multiBatchMode
            THEN /\ ~Has(c.body, "name")
                 /\ \A n \in 1..Len(queue):
                      /\ Has(metrics[n], "name")
                      /\ metrics[n].name = queue[n].name
            ELSE /\ Has(c.body, "name")
                 /\ c.body.name = client.batchMetricName
                 /\ \A n \in 1..Len(queue): ~Has(metrics[n], "name")
       /\ \A n \in 1..Len(queue):
            /\ metrics[n].value = queue[n].value
            /\ IF queue[n].tags.defined /\ Keys(queue[n].tags.value) # {}
                 THEN /\ Has(metrics[n], "tags")
                      /\ metrics[n].tags = TagStrings(queue[n].tags.value)
                 ELSE ~Has(metrics[n], "tags")]_vars

\* A multi-metric batch POST in flight with two different metrics, the
\* second one tagged.
C25_Witness ==
  \E c \in BagToSet(calls):
    /\ c.op = "BoundMetricsClient.sendBatch"
    /\ ~Has(c.body, "name")
    /\ Len(c.body.metrics) = 2
    /\ c.body.metrics[1] = [value |-> 1, unit |-> "percent", name |-> "cpu"]
    /\ c.body.metrics[2] = [value |-> 2, unit |-> "MB", name |-> "mem",
                            tags |-> {"host:a"}]

TruncateReports == {r \in Reports : r.op = "truncateBytes"}
\* The number of bytes of the UTF-8 encoding of a string.
RECURSIVE ByteLength(_)
ByteLength(str) ==
  IF str = <<>> THEN 0
  ELSE (CASE Head(str) = "a" -> 1
          [] Head(str) = "grin" -> 4
          [] OTHER -> 3) + ByteLength(Tail(str))
\* The longest prefix of whole code points of str within the budget.
LongestPrefix(str, budget) ==
  LET fits == {k \in 0..Len(str) : ByteLength(SubSeq(str, 1, k)) <= budget}
      k == CHOOSE k \in fits: \A j \in fits: j <= k IN
  SubSeq(str, 1, k)

\* C26: truncateBytes(s, budget) is s when the encoding of s has at most
\* budget bytes, and otherwise the longest prefix of whole code points of
\* s within the budget, followed by the marker.
C26_TruncateBytes ==
  \A r \in TruncateReports:
    r.value =
      IF ByteLength(r.input.str) <= r.input.maxBytes
        THEN r.input.str
        ELSE LongestPrefix(r.input.str, r.input.maxBytes) \o <<Marker>>

\* The strings without a byte order mark in front and without a lone
\* surrogate.
PlainString(str) ==
  /\ str # <<>> => Head(str) # "BOM"
  /\ \A n \in 1..Len(str): str[n] # "D800"
\* For those strings truncateBytes returns what C26 says.
TruncatePlainStrings ==
  \A r \in TruncateReports:
    PlainString(r.input.str) =>
      r.value =
        IF ByteLength(r.input.str) <= r.input.maxBytes
          THEN r.input.str
          ELSE LongestPrefix(r.input.str, r.input.maxBytes) \o <<Marker>>

\* The requests that the step settles: in flight before it, gone after it.
SettledRequests ==
  {c \in BagToSet(calls) : CopiesIn(c, calls') < CopiesIn(c, calls)}
\* How many times e occurs in the sequence.
Occurrences(seq, e) == Cardinality({n \in 1..Len(seq) : seq[n] = e})
\* Every element of `removed` occurs in `listed` at least as many times.
AllListed(removed, listed) ==
  \A n \in 1..Len(removed):
    Occurrences(removed, removed[n]) <= Occurrences(listed, removed[n])

\* C27: in the step in which a sendBatch() resolves true, every entry that
\* the step removes from the queue is listed in the payload of the POST
\* that was answered with 200/201, also when entries were appended while
\* that POST was pending.
C27_NoUnsentEntryDiscarded ==
  [][\A r \in ReportsAfter:
       (r.op \in SendBatchOps /\ Awaited(r) /\ Delivered(r) /\ r.value = TRUE)
         => \A c \in SettledRequests:
              c.op = r.op =>
                IF c.op = "LogDotLogger.sendBatch"
                  THEN /\ logger'.batchQueue = <<>>
                       /\ AllListed(BatchLogs(logger.batchQueue), c.body.logs)
                  ELSE /\ client'.batchQueue = <<>>
                       /\ AllListed(BatchMetrics(client.batchQueue,
                                                 client.multiBatchMode),
                                    c.body.metrics)]_vars

\* C28: a request that is in an attempt, from the call of fetch() until the
\* response body has been read, has its abort timer armed, so that the
\* timeout can end the attempt as a failed one.
C28_AttemptCoveredByTimeout ==
  \A c \in BagToSet(calls):
    c.phase \in {"fetch", "body"} => c.timer

\* The sendBatch() POSTs in flight, of the logger or of the bound client.
BatchPostsInFlight == {c \in BagToSet(calls) : c.op \in SendBatchOps}

\* C29: a sendBatch() called while the POST of an earlier sendBatch() of
\* the same object is pending is not held back by it: it returns false at
\* once only when there is nothing to send, and otherwise issues a POST of
\* its own, whose payload lists the whole queue, the entries of the pending
\* POST included when they are still queued.
C29_OverlappingSendBatch ==
  [][BatchPostsInFlight # {} =>
       /\ \A r \in ReportsAfter:
            (r.op \in SendBatchOps /\ r.how = "returned") =>
              IF r.op = "LogDotLogger.sendBatch"
                THEN ~logger.batchMode \/ logger.batchQueue = <<>>
                ELSE ~client.batchMode \/ client.batchQueue = <<>>
       /\ \A c \in NewBatchPosts:
            IF c.op = "LogDotLogger.sendBatch"
              THEN c.body.logs = BatchLogs(logger.batchQueue)
              ELSE c.body.metrics =
                     BatchMetrics(client.batchQueue, client.multiBatchMode)]_vars

\* Two sendBatch() POSTs of one logger are in flight at once, the second
\* issued right after the first, and both carry the one queued entry.
C29_Witness ==
  /\ ncalls = 4
  /\ Len(logger.batchQueue) = 1
  /\ \E c \in BatchPostsInFlight:
       /\ c.op = "LogDotLogger.sendBatch"
       /\ c.attempt = 0 /\ c.phase = "fetch"
       /\ CopiesIn(c, calls) = 2
       /\ c.body.logs = BatchLogs(logger.batchQueue)

\* The entity resolutions in flight: the requests of resolveEntity, the GET
\* by name or the POST that creates the entity.
ResolutionsInFlight ==
  LET resolutions == {c \in BagToSet(calls) : c.op = ResolutionOp} IN
  BagCardinality([c \in resolutions |-> CopiesIn(c, calls)])

\* C30: at most one entity resolution of the metric exporter is in flight;
\* the promise is pending exactly while it is; and the export() calls that
\* wait for a resolution wait for that one, no other lookup having been
\* issued for them.
C30_SingleResolutionInFlight ==
  /\ ResolutionsInFlight <= 1
  /\ ResolutionsInFlight = 1 <=> exporter.entityPromise = "pending"
  /\ exporter.waiting # <<>> => ResolutionsInFlight = 1

\* Two export() calls wait while the one lookup by name is in flight.
C30_Witness ==
  /\ Len(exporter.waiting) = 2
  /\ ResolutionsInFlight = 1
  /\ \E c \in BagToSet(calls):
       c.op = ResolutionOp /\ c.method = "GET" /\ c.phase = "fetch"

\* The report ends a call that went through HttpClient.post() or get().
ThroughHttp(r) == r.how \in {"resolved", "rejected", "callback"}

\* C31: whatever number of attempts is configured, 0 included, a post() or
\* get() makes at least one attempt, and one that fails rejects with an
\* error that has a message, so that the catch blocks of the logger's and
\* the bound client's send operations end normally, with a value.
C31_AtLeastOneAttempt ==
  /\ \A c \in BagToSet(calls): AttemptsMade(c) >= 1
  /\ \A r \in Reports:
       ThroughHttp(r) =>
         /\ r.attempts >= 1
         /\ ~r.http.ok => HasMessage(r.http.error)
         /\ r.op \in SendOps => r.how = "resolved"

\* Every ConsoleCapture instance constructed has been shut down.
AllShutDown ==
  /\ console.captures # <<>>
  /\ \A n \in 1..Len(console.captures): ~console.captures[n].flushTimer

\* C32: once every ConsoleCapture instance has been shut down, in whatever
\* order, the console methods are the functions that were installed before
\* the first instance was constructed: no wrapper remains installed.
C32_AllShutDownRestoresConsole ==
  AllShutDown => console.methods = Native

\* The number of flush POSTs among the requests cs.
FlushCount(cs) ==
  BagCardinality([c \in FlushRequests(cs) |-> CopiesIn(c, cs)])
\* The step is a tick of the timer (no call of the application, and no
\* request in flight moves on) or a shutdown().
FlushRequested ==
  /\ component = "capture"
  /\ \/ \E r \in ReportsAfter: r.op = ShutdownOp
     \/ /\ ncalls' = ncalls /\ capture.flushTimer
        /\ \A c \in BagToSet(calls): CopiesIn(c, calls') >= CopiesIn(c, calls)

\* C33: at most one flush POST of the ConsoleCapture is in flight, and it
\* is in flight exactly while the guard is set; a flush requested by the
\* timer or by shutdown() that finds the buffer empty or the guard set
\* starts no request and leaves the buffer and the guard as they are.
C33_OneFlushInFlight ==
  [][/\ FlushCount(calls') <= 1
     /\ component = "capture" => (capture'.flushing <=> FlushCount(calls') = 1)
     /\ (FlushRequested /\ (capture.buffer = <<>> \/ capture.flushing)) =>
          /\ calls' = calls
          /\ capture'.buffer = capture.buffer
          /\ capture'.flushing = capture.flushing]_vars

\* The timer has just fired while the POST of an earlier flush, not yet
\* answered, is in flight: there is still that one POST.
C33_Witness ==
  /\ ncalls = 2 /\ returned = <<>>
  /\ capture.flushTimer /\ capture.flushing
  /\ FlushCount(calls) = 1
  /\ \E c \in FlushRequests(calls):
       c.attempt = 0 /\ c.phase = "fetch" /\ Len(c.body.logs) = 2

\* The flush POSTs the step starts.
NewFlushes == {c \in NewRequests : c.op = "ConsoleCapture.flush"}
\* The entries in the buffer when flush() is called in this step: those of
\* the state before it and, in a console call, the entry the call pushed.
Detached ==
  IF \E r \in ReportsAfter: r.op = "console"
    THEN Append(capture.buffer,
                ConsoleEntry((CHOOSE r \in ReportsAfter: r.op = "console").input))
    ELSE capture.buffer

\* C34: a flush that proceeds leaves the buffer empty and the guard set and
\* issues exactly one POST, to the batch endpoint of the logs service,
\* whose logs are the entries that were in the buffer, in buffer order.
C34_FlushDetachesAll ==
  [][NewFlushes # {} =>
       /\ ~capture.flushing /\ capture'.flushing
       /\ capture'.buffer = <<>>
       /\ Cardinality(NewRequests) = 1
       /\ \A c \in NewFlushes:
            /\ CopiesIn(c, calls') = CopiesIn(c, calls) + 1
            /\ c.method = "POST"
            /\ c.url = <<BASE_LOGS_URL, ENDPOINT_BATCH>>
            /\ c.body.logs = Detached
            /\ Len(c.body.logs) >= 1]_vars

\* The timer has just flushed the one entry a console call had buffered:
\* the buffer is empty, the guard set, the POST not yet answered.
C34_Witness ==
  /\ ncalls = 1 /\ returned = <<>>
  /\ capture.flushTimer /\ capture.patched
  /\ capture.flushing /\ capture.buffer = <<>>
  /\ \E c \in FlushRequests(calls):
       /\ c.attempt = 0 /\ c.phase = "fetch"
       /\ c.body.logs = << ConsoleEntry([method |-> "warn", text |-> "a"]) >>

\* C35: whenever a flush has set the guard, the guard is cleared later on:
\* it is never left set for ever.
C35_GuardEventuallyCleared ==
  capture.flushing ~> ~capture.flushing

\* C36: while the flush timer fires, an entry in the buffer does not stay
\* there: the buffer is emptied again; and the buffer changes only by a
\* console call appending its entry or by being emptied into the payload
\* of the one POST started in the same step, which lists all the entries
\* it held, so that each entry goes into exactly one payload.  shutdown()
\* is such a step.
C36_EveryEntryFlushedOnce ==
  /\ (capture.buffer # <<>>) ~> (capture.buffer = <<>>)
  /\ [][/\ capture'.buffer # capture.buffer =>
             \/ /\ capture'.buffer = Detached
                /\ NewFlushes = {}
             \/ /\ capture'.buffer = <<>>
                /\ \E c \in NewFlushes:
                     /\ NewFlushes = {c}
                     /\ CopiesIn(c, calls') = CopiesIn(c, calls) + 1
                     /\ c.body.logs = Detached
        /\ \A r \in ReportsAfter:
             r.op = ShutdownOp => capture'.buffer = <<>>]_vars

\* The one entry a console call buffered was flushed by the timer and its
\* POST has just been answered with 200.
C36_Witness ==
  /\ ncalls = 1
  /\ \E r \in Reports:
       r.op = "ConsoleCapture.flush" /\ r.http.ok /\ r.http.status = 200
  /\ capture.buffer = <<>> /\ ~capture.flushing /\ capture.flushTimer

BatchAfter(n) ==
  IF n = 0 THEN [batchMode |-> logger'.batchMode,
                 batchQueue |-> logger'.batchQueue]
  ELSE [batchMode |-> derived'[n].batchMode,
        batchQueue |-> derived'[n].batchQueue]
Idle == [batchMode |-> FALSE, batchQueue |-> <<>>]
\* The POSTs of single logs the step starts.
NewLogPosts == {c \in NewRequests : c.op = "LogDotLogger.log"}

SingleBatchPosts ==
  {c \in BagToSet(calls) : /\ c.op = "BoundMetricsClient.sendBatch"
                           /\ "name" \in DOMAIN c.body}

\* C39: while the client is in single-metric batch mode every queued entry
\* has the name and the unit of the latest beginBatch(name, unit), and every
\* single-metric payload in flight carries, under the name of one
\* beginBatch, only values with the unit given to that beginBatch.
C39_SingleBatchEntriesShareNameUnit ==
  component = "metrics" =>
    /\ (client.batchMode /\ ~client.multiBatchMode) =>
         \A n \in 1..Len(client.batchQueue):
           /\ client.batchQueue[n].name = client.batchMetricName
           /\ client.batchQueue[n].unit = client.batchUnit
    /\ \A c \in SingleBatchPosts:
         \E in \in BatchInputs:
           /\ c.body.name = in.name
           /\ \A n \in 1..Len(c.body.metrics):
                c.body.metrics[n].unit = in.unit

\* The batch begun as "cpu" is in flight with its one value, the client has
\* begun the batch "load" since, and the entry queued for "cpu" is no longer
\* in its queue.
C39_Witness ==
  /\ component = "metrics"
  /\ client.batchMode /\ ~client.multiBatchMode
  /\ client.batchMetricName = "load" /\ client.batchUnit = "ratio"
  /\ client.batchQueue = <<>>
  /\ \E c \in SingleBatchPosts:
       /\ c.body.name = "cpu"
       /\ Len(c.body.metrics) = 1
       /\ c.body.metrics[1].unit = "percent"

\* C40: a logger or a bound metrics client that is not in batch mode has an
\* empty queue, in every state that the calls and the completions of
\* pending sendBatch() calls can reach in any order.
C40_IdleQueueEmpty ==
  /\ ~logger.batchMode => logger.batchQueue = <<>>
  /\ ~client.batchMode => client.batchQueue = <<>>

\* A sendBatch() of the logger has just completed after endBatch() was
\* called while its POST was pending: the logger is not in batch mode and
\* its queue is empty.
C40_Witness ==
  /\ component = "logger"
  /\ ~logger.batchMode /\ logger.batchQueue = <<>>
  /\ \E r \in Reports:
       r.op = "LogDotLogger.sendBatch" /\ r.how \in {"resolved", "rejected"}

====
